---- MODULE Spec2Model ----
(***************************************************************************)
(* Verification model of backend_messenger's asynchronous backbone:        *)
(*   - the generic idempotency middleware (apps/api middleware),           *)
(*   - the upload-completion idempotency (uploads route),                  *)
(*   - the media pipeline workers and the garbage collector (stream jobs   *)
(*     and background scanner),                                            *)
(*   - the realtime gateway's topic registry,                              *)
(*   - the stream-queue consume loop shared by the workers.                *)
(* Each subsystem has its own specification over its own variables.        *)
(***************************************************************************)
EXTENDS Integers, Sequences, FiniteSets, TLC

VARIABLES
    idemRes,    \* redis: idem:res:<scope>:<key>  -> stored response or NoRes
    idemLock,   \* redis: idem:lock:<scope>:<key> -> present?
    req,        \* the requests passing through the middleware hooks
    upResult,   \* redis: idem:result:<key> of the upload-completion route
    upLock,     \* redis: idem:lock:<key> of the upload-completion route
    upReq,      \* the requests to POST /v1/upload/:mediaId/complete
    upJobs,     \* entries appended to q:antivirus.media / q:metadata.media
    media,      \* the media_files row of media M
    variants,   \* media_variants rows of M: the set of their profiles
    objects,    \* keys present in the S3 bucket
    streams,    \* undelivered jobs per Redis stream
    dlq,        \* dead-letter entries: <<stream, reason, error>>
    task,       \* the job each worker is processing
    completes,  \* completed upload calls for M so far
    posts,      \* posts.media_id per post id: "none" (no row), "null" or "M"
    conn,       \* realtime gateway: lifecycle of each websocket connection
    sockets,    \* realtime gateway: the global socket set
    gw,         \* ctx.subs, topicToSockets, topicRefCount and the broker's view
    handlers,   \* realtime gateway: async handlers suspended at an await
    qKind,      \* queue runtime: which worker's consume loop is running
    qStream,    \* queue runtime: the stream, a sequence of payload texts
    qGroup,     \* queue runtime: the consumer group (last-delivered id, PEL)
    qWorker,    \* queue runtime: the worker process (loop position, in-flight jobs)
    qHist,      \* per entry: handler invocations, acks, handler outcome
    qDlq,       \* queue runtime: the dead-letter stream
    crashes,    \* worker crashes so far
    calc,       \* a pure function under check: its inputs and its result
    auth        \* AuthService: auth_sessions rows and the refresh calls in progress

idemVars == <<idemRes, idemLock, req>>
upVars == <<upResult, upLock, upReq, upJobs>>
mediaVars == <<media, variants, objects, streams, dlq, task, completes>>
rtVars == <<conn, sockets, gw, handlers>>
queueVars == <<qKind, qStream, qGroup, qWorker, qHist, qDlq, crashes>>
authVars == <<calc, auth>>
notIdem == <<upVars, mediaVars, posts, rtVars, queueVars, authVars>>
notUp == <<idemVars, mediaVars, posts, rtVars, queueVars, authVars>>
notPipeline == <<idemVars, upVars, rtVars, queueVars, authVars>>
notMedia == <<notPipeline, posts>>
notRT == <<idemVars, upVars, mediaVars, posts, queueVars, authVars>>
notQueue == <<idemVars, upVars, mediaVars, posts, rtVars, authVars>>
notAuth == <<idemVars, upVars, mediaVars, posts, rtVars, queueVars>>

vars == <<idemVars, upVars, mediaVars, posts, rtVars, queueVars, authVars>>

(***************************************************************************)
(* Generic idempotency middleware: apps/api/src/middleware/idempotency.ts  *)
(***************************************************************************)
MaxRequests == 2
MaxStoreBytes == 2

Requests == 1..MaxRequests
Actors == {"A", "B"}

\* Idempotency-Key header values, by what validateKey looks at.
Tokens ==
    { [len |-> 0,  urlsafe |-> TRUE],
      [len |-> 15, urlsafe |-> TRUE],
      [len |-> 16, urlsafe |-> TRUE],
      [len |-> 16, urlsafe |-> FALSE] }

MinKeyLen == 16
MaxKeyLen == 200

validateKey(key) ==
    /\ key.len # 0
    /\ ~(key.len < MinKeyLen \/ key.len > MaxKeyLen)
    /\ key.urlsafe

\* req.user when the preHandler hook of the middleware runs: set by an auth
\* hook registered before it, still undefined when the route authenticates
\* with its own preHandler (requireAuth), which runs after the hooks of the
\* instance
NoUser == "undefined"
UserAtHook(actor) == {NoUser, actor}

\* req.user?.id || 'anon'
getUserId(user) == IF user = NoUser THEN "anon" ELSE user
Uids == Actors \cup {"anon"}

\* method|pathHash|uid, then the two redis keys share <scope>:<key>.
buildScope(uid) == <<"POST", "route", uid>>
ScopedKey(uid, key) == <<buildScope(uid), key>>
ScopedKeys == { ScopedKey(u, k) : u \in Uids, k \in {t \in Tokens : validateKey(t)} }

ALLOWED_RES_HEADERS ==
    {"content-type", "content-length", "etag", "last-modified", "location", "cache-control"}

Undefined == [kind |-> "undefined", bytes |-> <<>>]
NoRes == [status |-> 0]
NoResp == [status |-> 0, headers |-> {}, body |-> <<>>]

Bytes(n) == [i \in 1..n |-> 1]

\* What a route handler may answer: status, reply headers, payload.
HandlerOutcomes ==
    { [status |-> 200, headers |-> {"content-type", "x-request-id"},
       payload |-> [kind |-> "str", bytes |-> Bytes(1)]],
      [status |-> 404, headers |-> {"content-type"},
       payload |-> [kind |-> "obj", bytes |-> Bytes(2)]],
      [status |-> 204, headers |-> {"set-cookie"},
       payload |-> [kind |-> "null", bytes |-> <<>>]],
      [status |-> 201, headers |-> {"location"},
       payload |-> [kind |-> "str", bytes |-> Bytes(MaxStoreBytes + 1)]],
      [status |-> 500, headers |-> {"content-type"},
       payload |-> [kind |-> "str", bytes |-> Bytes(1)]] }

\* The response as it goes on the wire.
Wire(status, headers, payload) ==
    [status |-> status, headers |-> headers, body |-> payload.bytes]

normalizePayload(payload) ==
    IF payload.kind = "null" THEN [buf |-> <<>>, isJson |-> FALSE, json |-> Undefined]
    ELSE IF payload.kind = "str" THEN [buf |-> payload.bytes, isJson |-> FALSE, json |-> Undefined]
    ELSE [buf |-> payload.bytes, isJson |-> TRUE, json |-> payload]

Base64(buf) == [kind |-> "b64", bytes |-> buf]
FromBase64(s) == s.bytes

\* StoredRecord with the header allowlist forgotten.
StoredRecord_AllHeaders(status, replyHeaders, payload) ==
    [status |-> status,
     headers |-> replyHeaders,
     isJson |-> normalizePayload(payload).isJson,
     bodyBase64 |-> IF normalizePayload(payload).isJson THEN Undefined
                    ELSE Base64(normalizePayload(payload).buf),
     bodyJson |-> IF normalizePayload(payload).isJson THEN normalizePayload(payload).json
                  ELSE Undefined]

\* The StoredResponse record built by onSend.
StoredRecord(status, replyHeaders, payload) ==
    LET norm == normalizePayload(payload) IN
    [status |-> status,
     headers |-> replyHeaders \cap ALLOWED_RES_HEADERS,
     isJson |-> norm.isJson,
     bodyBase64 |-> IF norm.isJson THEN Undefined ELSE Base64(norm.buf),
     bodyJson |-> IF norm.isJson THEN norm.json ELSE Undefined]

replayStoredResponse(record) ==
    [status |-> IF record.status = 0 THEN 200 ELSE record.status,
     headers |-> record.headers,
     body |-> IF record.isJson
              THEN (IF record.bodyJson = Undefined THEN <<>> ELSE record.bodyJson.bytes)
              ELSE (IF record.bodyBase64 = Undefined \/ FromBase64(record.bodyBase64) = <<>>
                    THEN <<>> ELSE FromBase64(record.bodyBase64))]

NewReq ==
    [pc |-> "new", actor |-> "A", user |-> NoUser, key |-> [len |-> 0, urlsafe |-> TRUE],
     via |-> "none", ran |-> FALSE, conc |-> {}, out |-> NoResp, resp |-> NoResp]

KeyOf(r) == ScopedKey(getUserId(req[r].user), req[r].key)

InFlight == { r \in Requests : req[r].pc \notin {"new", "done"} }

IdemIdle ==
    /\ idemRes = [k \in ScopedKeys |-> NoRes]
    /\ idemLock = [k \in ScopedKeys |-> FALSE]
    /\ req = [r \in Requests |-> NewReq]

Err(status) == [status |-> status, headers |-> {"content-type"}, body |-> Bytes(1)]

\* preHandler, up to the first await: method, header, validateKey.
PreHandlerEnter(r) ==
    /\ req[r].pc = "new"
    /\ \E a \in Actors, key \in Tokens : \E u \in UserAtHook(a) :
         IF key.len = 0
         THEN \* no key: the middleware stays out, the route runs unguarded
              req' = [req EXCEPT ![r] = [@ EXCEPT !.pc = "handler", !.actor = a, !.user = u, !.key = key,
                                                   !.via = "unguarded"]]
         ELSE IF ~validateKey(key)
         THEN req' = [req EXCEPT ![r] = [@ EXCEPT !.pc = "done", !.actor = a, !.user = u, !.key = key,
                                                   !.via = "invalid", !.resp = Err(400)]]
         ELSE req' = [req EXCEPT ![r] = [@ EXCEPT !.pc = "get", !.actor = a, !.user = u, !.key = key,
                                                   !.conc = { q \in InFlight :
                                                       /\ validateKey(req[q].key)
                                                       /\ KeyOf(q) = ScopedKey(getUserId(u), key) }]]
    /\ UNCHANGED <<idemRes, idemLock, notIdem>>

\* const cached = await redis.get(resKey); if (cached) replay.
PreHandlerGet(r) ==
    /\ req[r].pc = "get"
    /\ LET cached == idemRes[KeyOf(r)] IN
       IF cached # NoRes
       THEN req' = [req EXCEPT ![r] = [@ EXCEPT !.pc = "done", !.via = "replay",
                                                !.resp = replayStoredResponse(cached)]]
       ELSE req' = [req EXCEPT ![r] = [@ EXCEPT !.pc = "setnx"]]
    /\ UNCHANGED <<idemRes, idemLock, notIdem>>

\* const ok = await redis.set(lockKey, '1', { NX: true, EX: lockTtlSec }).
PreHandlerLock(r) ==
    /\ req[r].pc = "setnx"
    /\ IF idemLock[KeyOf(r)]
       THEN /\ req' = [req EXCEPT ![r] = [@ EXCEPT !.pc = "done", !.via = "conflict",
                                                   !.resp = Err(409)]]
            /\ UNCHANGED idemLock
       ELSE /\ idemLock' = [idemLock EXCEPT ![KeyOf(r)] = TRUE]
            /\ req' = [req EXCEPT ![r] = [@ EXCEPT !.pc = "handler", !.via = "handler"]]
    /\ UNCHANGED <<idemRes, notIdem>>

\* The route handler runs (its side effect happens) and produces a reply.
RouteHandler(r) ==
    /\ req[r].pc = "handler"
    /\ \E o \in HandlerOutcomes :
         req' = [req EXCEPT ![r] = [@ EXCEPT !.pc = "onsend", !.ran = TRUE, !.out = o]]
    /\ UNCHANGED <<idemRes, idemLock, notIdem>>

OverCap_Unlimited(payload) == FALSE

\* norm.buf.length > state.maxStoreBytes
OverCap(payload) == Len(normalizePayload(payload).buf) > MaxStoreBytes

\* onSend hook: store the result and release the lock.
OnSend(r) ==
    /\ req[r].pc = "onsend"
    /\ LET o == req[r].out
           k == KeyOf(r)
           sent == [req EXCEPT ![r] = [@ EXCEPT !.pc = "done",
                                               !.resp = Wire(o.status, o.headers, o.payload)]]
       IN
       IF req[r].via # "handler"
       THEN \* no __idem state: return payload
            /\ req' = sent
            /\ UNCHANGED <<idemRes, idemLock>>
       ELSE IF o.status >= 500
       THEN /\ idemLock' = [idemLock EXCEPT ![k] = FALSE]
            /\ req' = sent
            /\ UNCHANGED idemRes
       ELSE IF OverCap(o.payload)
       THEN /\ idemLock' = [idemLock EXCEPT ![k] = FALSE]
            /\ req' = sent
            /\ UNCHANGED idemRes
       ELSE \* MULTI: set resKey, del lockKey
            /\ idemRes' = [idemRes EXCEPT ![k] = StoredRecord(o.status, o.headers, o.payload)]
            /\ idemLock' = [idemLock EXCEPT ![k] = FALSE]
            /\ req' = sent
    /\ UNCHANGED notIdem

\* EX lockTtlSec runs out.
LockExpire(k) ==
    /\ idemLock[k]
    /\ idemLock' = [idemLock EXCEPT ![k] = FALSE]
    /\ UNCHANGED <<idemRes, req, notIdem>>

\* EX ttlSec of the stored response runs out.
ResExpire(k) ==
    /\ idemRes[k] # NoRes
    /\ idemRes' = [idemRes EXCEPT ![k] = NoRes]
    /\ UNCHANGED <<idemLock, req, notIdem>>

IdemNext ==
    \/ \E r \in Requests : PreHandlerEnter(r)
    \/ \E r \in Requests : PreHandlerGet(r)
    \/ \E r \in Requests : PreHandlerLock(r)
    \/ \E r \in Requests : RouteHandler(r)
    \/ \E r \in Requests : OnSend(r)
    \/ \E k \in ScopedKeys : LockExpire(k)
    \/ \E k \in ScopedKeys : ResExpire(k)

Guarded(r) == req[r].via = "handler"

\* Two requests with one scoped key overlapped in time.
Concurrent(r1, r2) ==
    /\ r1 # r2
    /\ validateKey(req[r1].key) /\ validateKey(req[r2].key)
    /\ KeyOf(r1) = KeyOf(r2)
    /\ (r1 \in req[r2].conc \/ r2 \in req[r1].conc)

\* C1: of two concurrent requests that share one scoped idempotency key, at
\* most one executes the route handler (the other gets 409 or a replay).
C1_OneExecutes ==
    \A r1, r2 \in Requests :
        Concurrent(r1, r2) => ~(req[r1].ran /\ req[r2].ran)

\* C2 (state part): a replayed answer is the status, the allow-listed headers
\* and the body of a completed first response with the same scoped key, whose
\* status was < 500 and whose body was within the cap; the replayed request
\* never ran the handler.
C2_ReplayIsFirstResponse ==
    \A r \in Requests :
        req[r].via = "replay" =>
            /\ ~req[r].ran
            /\ \E q \in Requests \ {r} :
                 /\ req[q].pc = "done" /\ Guarded(q) /\ req[q].ran
                 /\ KeyOf(q) = KeyOf(r)
                 /\ req[q].resp.status < 500
                 /\ Len(req[q].resp.body) <= MaxStoreBytes
                 /\ req[r].resp = [status |-> req[q].resp.status,
                                   headers |-> req[q].resp.headers \cap ALLOWED_RES_HEADERS,
                                   body |-> req[q].resp.body]

\* C2 (step part): a request that looks up its key while a stored result
\* exists is answered by the replay and does not go on to the handler.
C2_LaterRequestReplays ==
    \A r \in Requests :
        (req[r].pc = "get" /\ req'[r].pc # "get" /\ idemRes[KeyOf(r)] # NoRes) =>
            /\ req'[r].pc = "done" /\ req'[r].via = "replay" /\ ~req'[r].ran
            /\ req'[r].resp.status = idemRes[KeyOf(r)].status

\* C2: once a request with scoped key K has completed with status < 500 and a
\* body within the cap, every later request with K made while the stored
\* result has not expired is answered with the stored status, allow-listed
\* headers and body, and does not invoke the handler.
C2_ReplayStored == []C2_ReplayIsFirstResponse /\ [][C2_LaterRequestReplays]_vars

\* C2 witness: a request was answered by replay of a 200 whose reply carried a
\* header outside the allowlist.
C2_Witness ==
    \E r \in Requests, q \in Requests :
        /\ req[r].via = "replay" /\ req[r].resp.status = 200
        /\ Guarded(q) /\ req[q].pc = "done" /\ KeyOf(q) = KeyOf(r)
        /\ "x-request-id" \in req[q].resp.headers

\* C4: the handler is never started for a scoped key while a stored result
\* for that key exists.
C4_NoStartWhileStored ==
    [][\A r \in Requests :
         (Guarded(r) /\ req[r].pc = "handler" /\ req'[r].pc = "onsend")
             => idemRes[KeyOf(r)] = NoRes]_vars

\* C35: idempotency records are isolated per acting identity: a request of
\* actor A is answered by a replay, or by 409 for a held lock, only on
\* account of a guarded request of the same actor with the same key, never
\* of a request of another actor B, whatever method, route and key are.
C35_IsolatedPerIdentity ==
    \A r \in Requests :
        req[r].via \in {"replay", "conflict"} =>
            \E q \in Requests \ {r} :
                /\ Guarded(q) /\ req[q].key = req[r].key
                /\ req[q].actor = req[r].actor

\* C36: a request releases only its own lock: at the step in which a
\* finishing request deletes the lock key, no other request in flight holds
\* the lock on that key (one that acquired it after the lock of the first
\* had expired, for example).
C36_ReleasesOwnLock ==
    [][\A r \in Requests :
         (Guarded(r) /\ req[r].pc = "onsend" /\ req'[r].pc = "done") =>
             ~\E q \in Requests \ {r} :
                 /\ Guarded(q) /\ req[q].pc \in {"handler", "onsend"}
                 /\ KeyOf(q) = KeyOf(r)]_vars

\* C25: when a lock-holding request finishes with status < 500, the lock is
\* absent afterwards; a body within the cap is stored with the status and
\* the allow-listed headers only, a body over the cap stores nothing; and
\* every step that stores a result leaves the lock absent in the same step.
C25_StoreAndRelease ==
    [][\A r \in Requests :
         LET o == req[r].out
             k == KeyOf(r)
         IN  /\ (Guarded(r) /\ req[r].pc = "onsend" /\ req'[r].pc = "done" /\ o.status < 500) =>
                   /\ ~idemLock'[k]
                   /\ IF Len(o.payload.bytes) <= MaxStoreBytes
                      THEN /\ idemRes'[k] # NoRes
                           /\ idemRes'[k].status = o.status
                           /\ idemRes'[k].headers = o.headers \cap ALLOWED_RES_HEADERS
                           /\ replayStoredResponse(idemRes'[k]).body = o.payload.bytes
                      ELSE idemRes'[k] = idemRes[k]
             /\ (validateKey(req[r].key) /\ idemRes'[k] # idemRes[k] /\ idemRes'[k] # NoRes) =>
                   ~idemLock'[k]]_vars

\* C25 witness: one request's 200 is stored, another request answered 201 with
\* a body over the cap and nothing is stored for its key; neither lock is held.
C25_Witness ==
    \E r, q \in Requests :
        /\ Guarded(r) /\ req[r].pc = "done" /\ req[r].resp.status = 200
        /\ idemRes[KeyOf(r)] # NoRes /\ ~idemLock[KeyOf(r)]
        /\ Guarded(q) /\ req[q].pc = "done" /\ Len(req[q].resp.body) > MaxStoreBytes
        /\ idemRes[KeyOf(q)] = NoRes /\ ~idemLock[KeyOf(q)]

(***************************************************************************)
(* Upload-completion idempotency: uploads route                            *)
(* (handleIdempotencyStart / handleIdempotencyFinish and the /complete     *)
(* route's preHandler and handler).                                        *)
(***************************************************************************)
NewUpReq ==
    [pc |-> "new", key |-> [len |-> 0, urlsafe |-> TRUE], guarded |-> FALSE, late |-> FALSE,
     ran |-> FALSE, status |-> 0]

UpIdle ==
    /\ upResult = FALSE
    /\ upLock = FALSE
    /\ upReq = [r \in Requests |-> NewUpReq]
    /\ upJobs = [s \in {"q:antivirus.media", "q:metadata.media"} |-> 0]

UpSet(r, pc) == upReq' = [upReq EXCEPT ![r] = [@ EXCEPT !.pc = pc]]
UpReply(r, status) == upReq' = [upReq EXCEPT ![r] = [@ EXCEPT !.pc = "done", !.status = status]]

\* preHandler: requireUser, read and trim the Idempotency-Key header; an
\* empty header leaves the route unguarded, any other value becomes part of
\* the redis key.  The keyed requests of a behaviour carry one header value.
UpPreHandler(r) ==
    /\ upReq[r].pc = "new"
    /\ \E key \in Tokens :
         LET hasKey == key.len # 0 IN
         /\ hasKey => \A q \in Requests : upReq[q].guarded => upReq[q].key = key
         /\ upReq' = [upReq EXCEPT ![r] = [@ EXCEPT !.pc = IF hasKey THEN "setnx" ELSE "handler",
                                                    !.key = key,
                                                    !.guarded = hasKey,
                                                    !.late = hasKey /\ upResult]]
    /\ UNCHANGED <<upResult, upLock, upJobs, notUp>>

\* handleIdempotencyStart: SET idem:lock:<key> '1' EX 900 NX.
handleIdempotencyStart_SetNx(r) ==
    /\ upReq[r].pc = "setnx"
    /\ IF ~upLock
       THEN upLock' = TRUE /\ UpSet(r, "expire")
       ELSE UNCHANGED upLock /\ UpSet(r, "getres")
    /\ UNCHANGED <<upResult, upJobs, notUp>>

\* handleIdempotencyStart, lock not acquired: GET idem:result:<key>.
handleIdempotencyStart_Get(r) ==
    /\ upReq[r].pc = "getres"
    /\ IF upResult THEN UpReply(r, 200) ELSE UpReply(r, 409)
    /\ UNCHANGED <<upResult, upLock, upJobs, notUp>>

\* handleIdempotencyStart, lock acquired: EXPIRE idem:result:<key>, state 'locked'.
handleIdempotencyStart_Expire(r) ==
    /\ upReq[r].pc = "expire"
    /\ UpSet(r, "handler")
    /\ UNCHANGED <<upResult, upLock, upJobs, notUp>>

\* handler: ownership check and CompleteMultipartUpload; either may throw.
UpHandlerComplete(r) ==
    /\ upReq[r].pc = "handler"
    /\ \E outcome \in {200, 403, 500} :
         upReq' = [upReq EXCEPT ![r] =
                     IF outcome = 200 THEN [@ EXCEPT !.pc = "pubav", !.ran = TRUE]
                     ELSE [@ EXCEPT !.pc = "done", !.ran = TRUE, !.status = outcome]]
    /\ UNCHANGED <<upResult, upLock, upJobs, notUp>>

\* publish(redis, 'q:antivirus.media', ...)
UpHandlerPublishAv(r) ==
    /\ upReq[r].pc = "pubav"
    /\ upJobs' = [upJobs EXCEPT !["q:antivirus.media"] = @ + 1]
    /\ UpSet(r, "pubmeta")
    /\ UNCHANGED <<upResult, upLock, notUp>>

\* publish(redis, 'q:metadata.media', ...)
UpHandlerPublishMeta(r) ==
    /\ upReq[r].pc = "pubmeta"
    /\ upJobs' = [upJobs EXCEPT !["q:metadata.media"] = @ + 1]
    /\ UpSet(r, IF upReq[r].guarded THEN "finset" ELSE "send")
    /\ UNCHANGED <<upResult, upLock, notUp>>

\* handleIdempotencyFinish: SET idem:result:<key>.
handleIdempotencyFinish_Set(r) ==
    /\ upReq[r].pc = "finset"
    /\ upResult' = TRUE
    /\ UpSet(r, "findel")
    /\ UNCHANGED <<upLock, upJobs, notUp>>

\* handleIdempotencyFinish: DEL idem:lock:<key>.
handleIdempotencyFinish_Del(r) ==
    /\ upReq[r].pc = "findel"
    /\ upLock' = FALSE
    /\ UpSet(r, "send")
    /\ UNCHANGED <<upResult, upJobs, notUp>>

\* return reply.send(result)
UpHandlerSend(r) ==
    /\ upReq[r].pc = "send"
    /\ UpReply(r, 200)
    /\ UNCHANGED <<upResult, upLock, upJobs, notUp>>

\* The 15 minute lock TTL runs out.
UpLockExpire ==
    /\ upLock
    /\ upLock' = FALSE
    /\ UNCHANGED <<upResult, upReq, upJobs, notUp>>

\* The result TTL runs out.
UpResultExpire ==
    /\ upResult
    /\ upResult' = FALSE
    /\ UNCHANGED <<upLock, upReq, upJobs, notUp>>

UpNext ==
    \/ \E r \in Requests : UpPreHandler(r)
    \/ \E r \in Requests : handleIdempotencyStart_SetNx(r)
    \/ \E r \in Requests : handleIdempotencyStart_Get(r)
    \/ \E r \in Requests : handleIdempotencyStart_Expire(r)
    \/ \E r \in Requests : UpHandlerComplete(r)
    \/ \E r \in Requests : UpHandlerPublishAv(r)
    \/ \E r \in Requests : UpHandlerPublishMeta(r)
    \/ \E r \in Requests : handleIdempotencyFinish_Set(r)
    \/ \E r \in Requests : handleIdempotencyFinish_Del(r)
    \/ \E r \in Requests : UpHandlerSend(r)
    \/ UpLockExpire
    \/ UpResultExpire

\* C3: once a completion with Idempotency-Key K has succeeded and its result
\* is stored, a request with the same K that arrives afterwards does not
\* invoke the handler while the result is stored (so no second antivirus or
\* metadata job is published).
C3_NoReinvokeAfterStored ==
    [][\A r \in Requests :
         (upReq[r].late /\ upReq[r].pc = "handler" /\ upReq'[r].pc # "handler")
             => ~upResult]_vars

\* C24: when the handler of a request that holds the lock fails (status >=
\* 500 or a thrown error), the lock is released, so the next request with
\* the same key acquires the lock instead of receiving 409.
C24_FailureReleasesLock ==
    [][\A r \in Requests :
         (upReq[r].guarded /\ validateKey(upReq[r].key)
            /\ upReq[r].pc = "handler" /\ upReq'[r].pc = "done")
             => ~upLock']_vars

\* C26: a request whose Idempotency-Key is present but is not 16 to 200
\* URL-safe characters is answered 400 before any lock or result is read or
\* written and without invoking the handler.
C26_InvalidKeyRejected ==
    [][\A r \in Requests :
         (upReq[r].pc = "new" /\ upReq'[r].pc # "new"
            /\ upReq'[r].key.len # 0 /\ ~validateKey(upReq'[r].key))
             => (upReq'[r].pc = "done" /\ upReq'[r].status = 400)]_vars

(***************************************************************************)
(* Media pipeline: upload completion, antivirus, metadata, image-variant   *)
(* and video-transcode workers, and the garbage collector, for one media M. *)
(***************************************************************************)
MaxCompletes == 2
MaxGcJobs == 1
MaxSvcCompletes == 1
MaxPosts == 1

AV == "q:antivirus.media"
META == "q:metadata.media"
IMG == "q:variants.image"
VID == "q:transcode.video"
GC == "q:gc.media"
StreamNames == {AV, META, IMG, VID, GC}

Mimes == {"image/png", "video/mp4", "application/pdf"}
isImageMime(m) == m = "image/png"
isVideoMime(m) == m = "video/mp4"
Hashes == {"h1", "h2"}
Verdicts == {"clean", "infected", "error"}

\* The media_files row.  Timestamps are kept relative to now: "null", "recent"
\* or "old" (older than the collector's grace period and quarantine TTL).
NoRow == [exists |-> FALSE, status |-> "pending", quarantined |-> FALSE,
          mime |-> "application/pdf", sha |-> "null", meta |-> FALSE,
          ref_count |-> 0, created_at |-> "null",
          scanned_at |-> "null", antivirus_scanned_at |-> "null"]

\* Object keys are paths, profiles are name parts joined by "_" in the code.
ORIGINAL == <<"original", "M">>

PROFILES == <<"thumb", "medium", "large">>
FORMATS == <<"webp", "avif">>

\* PROFILES x FORMATS of the image worker, in loop order.
ImgOutputs ==
    [n \in 1..(Len(PROFILES) * Len(FORMATS)) |->
        LET prof == PROFILES[((n - 1) \div Len(FORMATS)) + 1]
            ext == FORMATS[((n - 1) % Len(FORMATS)) + 1]
        IN [profile |-> <<"img", prof, ext>>,
            key |-> <<"variants", "M", "images", prof, ext>>]]

Ladder ==
    << [profile |-> "360p", height |-> 360], [profile |-> "480p", height |-> 480],
       [profile |-> "720p", height |-> 720], [profile |-> "1080p", height |-> 1080] >>
HLS_MAX_VARIANTS == 4
HeightSlack == 8
SourceHeights == {240, 480}

Min2(a, b) == IF a < b THEN a ELSE b
Max2(a, b) == IF a > b THEN a ELSE b

FitsSource_NoSlack(r, srcH) == r.height <= srcH

FitsSource(r, srcH) == r.height <= srcH + HeightSlack

\* selectRenditions with HLS_MAX_VARIANTS as read from the environment:
\* Math.max(1, Math.min(4, Number(HLS_MAX_VARIANTS) || 4))
selectRenditionsWith(srcH, hlsMaxVariants) ==
    LET maxVariants == Max2(1, Min2(4, IF hlsMaxVariants = 0 THEN 4 ELSE hlsMaxVariants))
        fit == SelectSeq(Ladder, LAMBDA r : FitsSource(r, srcH))
    IN SubSeq(fit, 1, Min2(Len(fit), maxVariants))

selectRenditions(srcH) == selectRenditionsWith(srcH, HLS_MAX_VARIANTS)

HlsIndexKey(p) == <<"variants", "M", "hls", p, "index.m3u8">>
HlsSegKey(p) == <<"variants", "M", "hls", p, "seg_00000.ts">>
HLS_MASTER == <<"variants", "M", "hls", "master.m3u8">>
VidProfile(p) == <<"vid", p, "hls">>

\* The storage_key column of a media_variants row, by profile.
VariantKey(profile) ==
    IF profile[1] = "img"
    THEN <<"variants", "M", "images", profile[2], profile[3]>>
    ELSE HlsIndexKey(profile[2])

Idle == [pc |-> "idle"]

MediaIdle ==
    /\ media = NoRow
    /\ variants = {}
    /\ objects = {}
    /\ streams = [s \in StreamNames |-> 0]
    /\ dlq = {}
    /\ task = [av |-> Idle, meta |-> Idle, meta2 |-> Idle, img |-> Idle, vid |-> Idle,
               gc |-> Idle, scan |-> Idle]
    /\ completes = 0
    /\ posts = [p \in 1..MaxPosts |-> "none"]

Publish(st, stream) == [st EXCEPT ![stream] = @ + 1]
Take(stream) == streams' = [streams EXCEPT ![stream] = @ - 1]
Run(w, t) == task' = [task EXCEPT ![w] = t]
\* the job wrapper's catch: dead-letter with reason processing_failed
Fail(w, stream, error) ==
    /\ dlq' = dlq \cup {<<stream, "processing_failed", error>>}
    /\ Run(w, Idle)
Clean(row) == row.exists /\ row.status = "clean" /\ ~row.quarantined

\* POST /v1/upload/initiate: INSERT media_files ... 'pending', true
initiateMultipart ==
    /\ ~media.exists /\ completes = 0
    /\ \E m \in Mimes :
         media' = [NoRow EXCEPT !.exists = TRUE, !.status = "pending",
                                !.quarantined = TRUE, !.mime = m, !.created_at = "recent"]
    /\ UNCHANGED <<variants, objects, streams, dlq, task, completes, notMedia>>

\* POST /v1/upload/:mediaId/complete: handler (owner check, S3 complete, publish)
completeUpload ==
    /\ media.exists /\ completes < MaxCompletes
    /\ completes' = completes + 1
    \* a repeated CompleteMultipartUpload returns the first result again
    /\ objects' = IF completes = 0 THEN objects \cup {ORIGINAL} ELSE objects
    /\ streams' = Publish(Publish(streams, AV), META)
    /\ UNCHANGED <<media, variants, dlq, task, notMedia>>

\* UploadService.completeMultipart of the service class: S3 complete, size
\* update, enqueueAfterUpload (antivirus, metadata, and by MIME the image or
\* the transcode job)
completeMultipart ==
    /\ media.exists /\ completes < MaxSvcCompletes
    /\ completes' = completes + 1
    /\ objects' = IF completes = 0 THEN objects \cup {ORIGINAL} ELSE objects
    /\ LET both == Publish(Publish(streams, AV), META)
       IN streams' = IF isImageMime(media.mime) THEN Publish(both, IMG)
                     ELSE IF isVideoMime(media.mime) THEN Publish(both, VID)
                     ELSE both
    /\ UNCHANGED <<media, variants, dlq, task, notMedia>>

----
\* Antivirus worker: processJob up to the scan verdict.
AvScan ==
    /\ task.av.pc = "idle" /\ streams[AV] > 0
    /\ Take(AV)
    /\ IF ORIGINAL \notin objects
       THEN Fail("av", AV, "s3_missing")
       ELSE /\ \E v \in Verdicts : Run("av", [pc |-> "update", verdict |-> v])
            /\ UNCHANGED dlq
    /\ UNCHANGED <<media, variants, objects, completes, notMedia>>

updateStatus(row, verdict) ==
    IF ~row.exists THEN row
    ELSE [row EXCEPT !.status = verdict, !.quarantined = (verdict # "clean"),
                     !.antivirus_scanned_at = "recent"]

AvUpdateStatus ==
    /\ task.av.pc = "update"
    /\ media' = updateStatus(media, task.av.verdict)
    /\ Run("av", IF task.av.verdict = "clean" THEN [pc |-> "follow"] ELSE Idle)
    /\ UNCHANGED <<variants, objects, streams, dlq, completes, notMedia>>

\* publishFollowupsIfClean: SELECT mime, storage_key
publishFollowupsIfClean_Mime ==
    /\ task.av.pc = "follow"
    /\ Run("av", IF media.exists THEN [pc |-> "publish", mime |-> media.mime] ELSE Idle)
    /\ UNCHANGED <<media, variants, objects, streams, dlq, completes, notMedia>>

\* publishFollowupsIfClean: the stream of the follow-up, from the row of the
\* second SELECT (antivirus_status, quarantined) and the MIME of the first
followupStream_NoRecheck(row, mime) ==
    IF isImageMime(mime) THEN IMG
    ELSE IF isVideoMime(mime) THEN VID
    ELSE "none"

followupStream(row, mime) ==
    IF ~row.exists THEN "none"
    ELSE IF row.quarantined \/ row.status # "clean" THEN "none"
    ELSE IF isImageMime(mime) THEN IMG
    ELSE IF isVideoMime(mime) THEN VID
    ELSE "none"

\* publishFollowupsIfClean: SELECT antivirus_status, quarantined; XADD
publishFollowupsIfClean_Publish ==
    /\ task.av.pc = "publish"
    /\ LET to == followupStream(media, task.av.mime)
       IN streams' = IF to = "none" THEN streams ELSE Publish(streams, to)
    /\ Run("av", Idle)
    /\ UNCHANGED <<media, variants, objects, dlq, completes, notMedia>>

----
\* Image-variant worker: processJob gate (row, status, quarantine).
ImgGate ==
    /\ task.img.pc = "idle" /\ streams[IMG] > 0
    /\ Take(IMG)
    /\ IF ~media.exists THEN Fail("img", IMG, "media_not_found")
       ELSE IF media.quarantined \/ media.status # "clean"
       THEN Fail("img", IMG, "media_not_clean_or_quarantined")
       ELSE Run("img", [pc |-> "source"]) /\ UNCHANGED dlq
    /\ UNCHANGED <<media, variants, objects, completes, notMedia>>

\* s3ObjectExists, download, sharp metadata
ImgSource ==
    /\ task.img.pc = "source"
    /\ IF ORIGINAL \notin objects THEN Fail("img", IMG, "s3_missing")
       ELSE \/ Run("img", [pc |-> "upload", i |-> 1]) /\ UNCHANGED dlq
            \/ Fail("img", IMG, "image_meta_missing")
    /\ UNCHANGED <<media, variants, objects, streams, completes, notMedia>>

\* uploadToS3(key, outPath, contentType)
ImgUpload ==
    /\ task.img.pc = "upload"
    /\ objects' = objects \cup {ImgOutputs[task.img.i].key}
    /\ Run("img", [task.img EXCEPT !.pc = "upsert"])
    /\ UNCHANGED <<media, variants, streams, dlq, completes, notMedia>>

\* INSERT INTO media_variants ... ON CONFLICT (media_id, profile) DO UPDATE;
\* media_id references media_files(id).
upsertVariant(w, stream, profile, next) ==
    IF ~media.exists
    THEN Fail(w, stream, "foreign_key_violation") /\ UNCHANGED variants
    ELSE /\ variants' = variants \cup {profile}
         /\ Run(w, next)
         /\ UNCHANGED dlq

ImgUpsert ==
    /\ task.img.pc = "upsert"
    /\ upsertVariant("img", IMG, ImgOutputs[task.img.i].profile,
                     IF task.img.i = Len(ImgOutputs) THEN Idle
                     ELSE [pc |-> "upload", i |-> task.img.i + 1])
    /\ UNCHANGED <<media, objects, streams, completes, notMedia>>

----
\* Garbage collector, deleteMedia: fetchVariants
deleteMedia_FetchVariants ==
    /\ task.gc.pc = "idle" /\ streams[GC] > 0
    /\ Take(GC)
    /\ Run("gc", [pc |-> "orig", keys |-> {VariantKey(v) : v \in variants}])
    /\ UNCHANGED <<media, variants, objects, dlq, completes, notMedia>>

deleteMedia_FetchOriginalKey ==
    /\ task.gc.pc = "orig"
    /\ Run("gc", [pc |-> "s3many", keys |-> task.gc.keys, orig |-> media.exists])
    /\ UNCHANGED <<media, variants, objects, streams, dlq, completes, notMedia>>

\* s3DeleteMany(variantKeys)
deleteMedia_S3DeleteMany ==
    /\ task.gc.pc = "s3many"
    /\ objects' = objects \ task.gc.keys
    /\ Run("gc", [pc |-> "s3one", orig |-> task.gc.orig])
    /\ UNCHANGED <<media, variants, streams, dlq, completes, notMedia>>

\* if (orig) s3DeleteOne(orig)
deleteMedia_S3DeleteOne_NoGuard ==
    /\ task.gc.pc = "s3one"
    /\ IF task.gc.orig
       THEN objects' = objects \ {ORIGINAL} /\ Run("gc", [pc |-> "row"]) /\ UNCHANGED dlq
       ELSE Fail("gc", GC, "s3_error") /\ UNCHANGED objects
    /\ UNCHANGED <<media, variants, streams, completes, notMedia>>

deleteMedia_S3DeleteOne ==
    /\ task.gc.pc = "s3one"
    /\ objects' = IF task.gc.orig THEN objects \ {ORIGINAL} ELSE objects
    /\ Run("gc", [pc |-> "row"])
    /\ UNCHANGED <<media, variants, streams, dlq, completes, notMedia>>

\* DELETE FROM media_files WHERE id = $1 (variants cascade)
deleteMedia_DeleteRow ==
    /\ task.gc.pc = "row"
    /\ media' = [NoRow EXCEPT !.meta = media.meta]
    /\ variants' = {}
    /\ Run("gc", Idle)
    /\ UNCHANGED <<objects, streams, dlq, completes, notMedia>>

\* a delete_media job for M is published on q:gc.media
PublishDeleteMedia ==
    /\ completes > 0
    /\ streams[GC] < MaxGcJobs /\ task.gc.pc = "idle"
    /\ streams' = Publish(streams, GC)
    /\ UNCHANGED <<media, variants, objects, dlq, task, completes, notMedia>>

----
\* Metadata worker, job slot w (the worker runs up to CONCURRENCY jobs at
\* once): processJob up to sha256File(local).
MetaDownload(w) ==
    /\ task[w].pc = "idle" /\ streams[META] > 0
    /\ Take(META)
    /\ IF ORIGINAL \notin objects
       THEN Fail(w, META, "s3_missing")
       ELSE /\ \E h \in Hashes : Run(w, [pc |-> "select", sha |-> h])
            /\ UNCHANGED dlq
    /\ UNCHANGED <<media, variants, objects, completes, notMedia>>

\* writeShaIfEmptyOrQuarantineOnMismatch: SELECT sha256
writeSha_Select(w) ==
    /\ task[w].pc = "select"
    /\ IF ~media.exists
       THEN Fail(w, META, "media_not_found")
       ELSE /\ Run(w, [pc |-> "write", sha |-> task[w].sha, stored |-> media.sha])
            /\ UNCHANGED dlq
    /\ UNCHANGED <<media, variants, objects, streams, completes, notMedia>>

\* writeShaIfEmptyOrQuarantineOnMismatch: the UPDATE chosen from the stored hash
writeSha_QuarantineOnly(row, stored, sha) ==
    IF ~row.exists THEN row
    ELSE IF stored = "null" THEN [row EXCEPT !.sha = sha]
    ELSE IF stored # sha THEN [row EXCEPT !.quarantined = TRUE]
    ELSE row

writeShaIfEmptyOrQuarantineOnMismatch(row, stored, sha) ==
    IF ~row.exists THEN row
    ELSE IF stored = "null" THEN [row EXCEPT !.sha = sha]
    ELSE IF stored # sha THEN [row EXCEPT !.quarantined = TRUE, !.status = "error"]
    ELSE row

writeSha_Write(w) ==
    /\ task[w].pc = "write"
    /\ media' = writeShaIfEmptyOrQuarantineOnMismatch(media, task[w].stored, task[w].sha)
    /\ Run(w, IF task[w].stored # "null" /\ task[w].stored # task[w].sha
                   THEN [pc |-> "dlq"] ELSE [pc |-> "upsert"])
    /\ UNCHANGED <<variants, objects, streams, dlq, completes, notMedia>>

\* shaState = 'quarantined': XADD dead-letter, reason sha_mismatch; return
MetaShaMismatch(w) ==
    /\ task[w].pc = "dlq"
    /\ dlq' = dlq \cup {<<META, "sha_mismatch", "">>}
    /\ Run(w, Idle)
    /\ UNCHANGED <<media, variants, objects, streams, completes, notMedia>>

\* detectMime, extractMeta, upsertMetadata
upsertMetadata(w) ==
    /\ task[w].pc = "upsert"
    /\ media' = [media EXCEPT !.meta = TRUE]
    /\ \E m \in Mimes : Run(w, [pc |-> "mime", detected |-> m])
    /\ UNCHANGED <<variants, objects, streams, dlq, completes, notMedia>>

\* maybeUpdateMime: SELECT mime
maybeUpdateMime_Select(w) ==
    /\ task[w].pc = "mime"
    /\ Run(w, IF media.exists /\ media.mime # task[w].detected
                   THEN [pc |-> "setmime", detected |-> task[w].detected] ELSE Idle)
    /\ UNCHANGED <<media, variants, objects, streams, dlq, completes, notMedia>>

\* maybeUpdateMime: UPDATE media_files SET mime
maybeUpdateMime_Update(w) ==
    /\ task[w].pc = "setmime"
    /\ media' = IF media.exists THEN [media EXCEPT !.mime = task[w].detected] ELSE media
    /\ Run(w, Idle)
    /\ UNCHANGED <<variants, objects, streams, dlq, completes, notMedia>>

----
\* Video-transcode worker: processJob AV gate (skip is a normal return).
VidGate ==
    /\ task.vid.pc = "idle" /\ streams[VID] > 0
    /\ Take(VID)
    /\ IF ~media.exists THEN Fail("vid", VID, "media_not_found")
       ELSE IF media.quarantined \/ media.status # "clean"
       THEN Run("vid", Idle) /\ UNCHANGED dlq
       ELSE Run("vid", [pc |-> "already"]) /\ UNCHANGED dlq
    /\ UNCHANGED <<media, variants, objects, completes, notMedia>>

\* SELECT 1 FROM media_variants WHERE profile LIKE 'vid_%'
VidAlready ==
    /\ task.vid.pc = "already"
    /\ Run("vid", IF \E v \in variants : v[1] = "vid" THEN Idle ELSE [pc |-> "source"])
    /\ UNCHANGED <<media, variants, objects, streams, dlq, completes, notMedia>>

\* objectExists, download, ffprobe, selectRenditions, ffmpeg, writeMaster
VidSource ==
    /\ task.vid.pc = "source"
    /\ IF ORIGINAL \notin objects THEN Fail("vid", VID, "s3_missing")
       ELSE \/ Fail("vid", VID, "ffprobe_no_dims")
            \/ \E h \in SourceHeights :
                 LET renditions == selectRenditions(h) IN
                 IF Len(renditions) = 0 THEN Fail("vid", VID, "no_renditions")
                 ELSE /\ Run("vid", [pc |-> "index", i |-> 1, renditions |-> renditions])
                      /\ UNCHANGED dlq
    /\ UNCHANGED <<media, variants, objects, streams, completes, notMedia>>

\* uploadToS3(`${basePrefix}/${out.profile}/index.m3u8`)
VidUploadIndex ==
    /\ task.vid.pc = "index"
    /\ objects' = objects \cup {HlsIndexKey(task.vid.renditions[task.vid.i].profile)}
    /\ Run("vid", [task.vid EXCEPT !.pc = "segment"])
    /\ UNCHANGED <<media, variants, streams, dlq, completes, notMedia>>

\* uploadToS3 of the other files of the rendition directory (segments)
VidUploadSegments ==
    /\ task.vid.pc = "segment"
    /\ objects' = objects \cup {HlsSegKey(task.vid.renditions[task.vid.i].profile)}
    /\ Run("vid", IF task.vid.i = Len(task.vid.renditions)
                  THEN [task.vid EXCEPT !.pc = "master"]
                  ELSE [task.vid EXCEPT !.pc = "index", !.i = @ + 1])
    /\ UNCHANGED <<media, variants, streams, dlq, completes, notMedia>>

\* uploadToS3(`${basePrefix}/master.m3u8`)
VidUploadMaster ==
    /\ task.vid.pc = "master"
    /\ objects' = objects \cup {HLS_MASTER}
    /\ Run("vid", [task.vid EXCEPT !.pc = "upsert", !.i = 1])
    /\ UNCHANGED <<media, variants, streams, dlq, completes, notMedia>>

VidUpsert ==
    /\ task.vid.pc = "upsert"
    /\ upsertVariant("vid", VID, VidProfile(task.vid.renditions[task.vid.i].profile),
                     IF task.vid.i = Len(task.vid.renditions) THEN Idle
                     ELSE [task.vid EXCEPT !.i = @ + 1])
    /\ UNCHANGED <<media, objects, streams, completes, notMedia>>

\* the steps of the five workers and the publication of a delete_media job
MediaWorkersNext ==
    \/ AvScan \/ AvUpdateStatus \/ publishFollowupsIfClean_Mime \/ publishFollowupsIfClean_Publish
    \/ MetaDownload("meta") \/ writeSha_Select("meta") \/ writeSha_Write("meta")
    \/ upsertMetadata("meta") \/ maybeUpdateMime_Select("meta") \/ maybeUpdateMime_Update("meta")
    \/ ImgGate \/ ImgSource \/ ImgUpload \/ ImgUpsert
    \/ VidGate \/ VidAlready \/ VidSource \/ VidUploadIndex \/ VidUploadSegments
    \/ VidUploadMaster \/ VidUpsert
    \/ PublishDeleteMedia
    \/ deleteMedia_FetchVariants \/ deleteMedia_FetchOriginalKey \/ deleteMedia_S3DeleteMany
    \/ deleteMedia_S3DeleteOne \/ deleteMedia_DeleteRow

\* uploads through the routes of the upload plugin
MediaNext == initiateMultipart \/ completeUpload \/ MetaShaMismatch("meta") \/ MediaWorkersNext

\* one upload through the UploadService class; its single metadata job finds
\* no stored hash, so the hash-mismatch branch is not a step here
MediaSvcNext == initiateMultipart \/ completeMultipart \/ MediaWorkersNext

----
\* C5: whenever the image-variant or the video-transcode worker creates
\* (inserts or upserts) a media_variants row, the media record is, at that
\* moment, antivirus_status = clean and quarantined = false.
C5_VariantOnlyForClean ==
    [][((ImgUpsert \/ VidUpsert) /\ media.exists) => Clean(media)]_vars

\* C7: when deleteMedia(M) completes, no media_files row and no
\* media_variants row of M remains, and no object of M remains in the bucket:
\* neither the original nor anything under variants/<M>/.  Stated for the
\* deletes that complete while no image or video job is in progress.
C7_FullDeleteLeavesNothing ==
    [][(deleteMedia_DeleteRow /\ task.img.pc = "idle" /\ task.vid.pc = "idle") =>
          (~media'.exists /\ variants' = {} /\ objects' = {})]_vars

\* C13: in every reachable state of the media record, under any interleaving
\* of upload initiation, the antivirus worker and the metadata worker,
\* quarantined = true implies antivirus_status # clean.
C13_QuarantinedNotClean ==
    (media.exists /\ media.quarantined) => media.status # "clean"

\* the antivirus worker found the image clean and published its follow-up,
\* then the metadata worker quarantined the record on a hash mismatch
C13_Witness ==
    /\ media.exists /\ media.quarantined /\ media.status = "error"
    /\ <<META, "sha_mismatch", "">> \in dlq
    /\ streams[IMG] > 0

\* The follow-up streams, before and after a step.
FollowupsAdded(img, vid) ==
    /\ streams'[IMG] = streams[IMG] + img
    /\ streams'[VID] = streams[VID] + vid

\* the parts of C14 that do not depend on the record's state at the re-read:
\* only a clean verdict leads to publishFollowupsIfClean, and no other step
\* of the antivirus worker publishes a follow-up
C14_OnlyCleanFollowsUp ==
    /\ task.av.pc # "publish" => FollowupsAdded(0, 0)
    /\ task.av.pc = "update" =>
          task'.av.pc = (IF task.av.verdict = "clean" THEN "follow" ELSE "idle")
    /\ task.av.pc = "follow" => task'.av.pc = (IF media.exists THEN "publish" ELSE "idle")

\* C14: when the antivirus worker obtains a clean verdict for a media, it
\* publishes exactly one follow-up job: to the image-variant stream if the
\* record's MIME is image/*, to the transcode stream if it is video/*; for
\* any other MIME, and for infected or error verdicts, it publishes none.
C14_CleanPublishesOne ==
    [][task'.av # task.av =>
         /\ C14_OnlyCleanFollowsUp
         /\ (task.av.pc = "publish" /\ media.exists) =>
               IF task.av.mime = "image/png" THEN FollowupsAdded(1, 0)
               ELSE IF task.av.mime = "video/mp4" THEN FollowupsAdded(0, 1)
               ELSE FollowupsAdded(0, 0)]_vars

\* C14, amended: after a clean verdict the worker publishes the follow-up for
\* the MIME it read (image/* -> image-variant stream, video/* -> transcode
\* stream, exactly one job) if and only if the record, re-read after the
\* status update, still exists, is clean and is not quarantined; otherwise,
\* and for any other MIME and for infected or error verdicts, it publishes none.
C14_FollowupIffStillClean ==
    [][task'.av # task.av =>
         /\ C14_OnlyCleanFollowsUp
         /\ task.av.pc = "publish" =>
               IF ~media.exists \/ media.quarantined \/ media.status # "clean"
               THEN FollowupsAdded(0, 0)
               ELSE IF task.av.mime = "image/png" THEN FollowupsAdded(1, 0)
               ELSE IF task.av.mime = "video/mp4" THEN FollowupsAdded(0, 1)
               ELSE FollowupsAdded(0, 0)]_vars

\* a clean verdict has published its image job before; another clean verdict
\* is about to re-read a record that was quarantined in between
C14_Witness ==
    /\ task.av.pc = "publish" /\ task.av.mime = "image/png"
    /\ media.exists /\ media.quarantined
    /\ streams[IMG] + (IF task.img.pc = "idle" THEN 0 ELSE 1) > 0

\* image-variant jobs of M that are enqueued and not yet finished
ImageJobsOutstanding == streams[IMG] + (IF task.img.pc = "idle" THEN 0 ELSE 1)

\* C15: for one upload of an image whose antivirus verdict is clean, exactly
\* one image-variant job is ever enqueued for the media, counting every
\* producer (upload completion and the antivirus worker).  Checked through
\* its consequence that after one completion there are never two
\* image-variant jobs of the media outstanding at once.
C15_OneImageJob ==
    (completes <= 1 /\ media.exists) => ImageJobsOutstanding <= 1

\* C16: for an uploaded media whose antivirus verdict is infected (record
\* quarantined = true, antivirus_status = infected), no metadata job, no
\* image-variant job and no transcode job is ever enqueued.  Checked through
\* its consequence that no such job is in its stream while the record says so.
C16_InfectedNoJobs ==
    (media.exists /\ media.quarantined /\ media.status = "infected") =>
        (streams[META] = 0 /\ streams[IMG] = 0 /\ streams[VID] = 0)

\* The metadata worker with its default CONCURRENCY of two jobs in flight,
\* next to uploads and the antivirus worker.
MetaSlots == {"meta", "meta2"}

MetaJobNext(w) ==
    \/ MetaDownload(w) \/ writeSha_Select(w) \/ writeSha_Write(w) \/ MetaShaMismatch(w)
    \/ upsertMetadata(w) \/ maybeUpdateMime_Select(w) \/ maybeUpdateMime_Update(w)

MetaNext ==
    \/ initiateMultipart \/ completeUpload
    \/ AvScan \/ AvUpdateStatus \/ publishFollowupsIfClean_Mime \/ publishFollowupsIfClean_Publish
    \/ \E w \in MetaSlots : MetaJobNext(w)

\* the metadata worker has quarantined the record for a hash mismatch: a job
\* is between its quarantine UPDATE and its dead-letter append, or the
\* sha_mismatch entry is in the dead-letter stream
ShaMismatchQuarantined ==
    \/ \E w \in MetaSlots : task[w].pc = "dlq"
    \/ <<META, "sha_mismatch", "">> \in dlq

\* C33: once the metadata worker has quarantined a record for a hash
\* mismatch, the record, as long as it exists, stays quarantined = true with
\* antivirus_status # clean; no worker step, a later antivirus verdict
\* included, clears it.
C33_MismatchQuarantineSticks ==
    (ShaMismatchQuarantined /\ media.exists) =>
        (media.quarantined /\ media.status # "clean")

\* job slot w runs the UPDATE of writeShaIfEmptyOrQuarantineOnMismatch
ShaUpdateStep(w) == task[w].pc = "write" /\ task'[w] # task[w] /\ media.exists

\* C18: when the metadata worker computes a content hash that differs from
\* the hash already stored on the record, the record is set to quarantined =
\* true and antivirus_status = error, one dead-letter entry with reason
\* "sha_mismatch" is appended, the stored hash is left unchanged and no
\* metadata row is written; when no hash is stored the computed hash is
\* written and the worker does not quarantine the record.
C18_ShaMismatchHandling ==
    [][\A w \in MetaSlots :
         /\ (ShaUpdateStep(w) /\ media.sha # "null" /\ media.sha # task[w].sha) =>
               /\ media' = [media EXCEPT !.quarantined = TRUE, !.status = "error"]
               /\ task'[w].pc = "dlq"
         /\ (ShaUpdateStep(w) /\ media.sha = "null") =>
               /\ media' = [media EXCEPT !.sha = task[w].sha]
               /\ task'[w].pc = "upsert"
         /\ (task[w].pc = "dlq" /\ task'[w] # task[w]) =>
               /\ dlq' = dlq \cup {<<META, "sha_mismatch", "">>}
               /\ media' = media
               /\ task'[w].pc = "idle"]_vars

\* a downstream worker takes a job and finds the record not clean or quarantined
GateStep(w, stream) ==
    /\ task[w].pc = "idle" /\ streams'[stream] < streams[stream]
    /\ media.exists /\ (media.quarantined \/ media.status # "clean")

\* C19: when the image-variant worker or the video-transcode worker receives
\* a job for a media that is not clean or is quarantined, the job is silently
\* skipped: the handler returns (the entry is then acknowledged), no variant
\* is produced and no dead-letter entry is written.
C19_GateSkipsSilently ==
    [][(GateStep("img", IMG) \/ GateStep("vid", VID)) =>
          (task' = task /\ dlq' = dlq /\ variants' = variants /\ objects' = objects)]_vars

(***************************************************************************)
(* Garbage collector, background scanner: the orphan sweep and the         *)
(* quarantine-expiry sweep over media M, next to uploads, the antivirus    *)
(* and metadata workers, and posts attaching M.  Store calls succeed.      *)
(***************************************************************************)
Age(t) == IF t = "recent" THEN "old" ELSE t

\* time passes: more than the grace period and the quarantine TTL
Tick ==
    /\ media.exists
    /\ "recent" \in {media.created_at, media.scanned_at, media.antivirus_scanned_at}
    /\ media' = [media EXCEPT !.created_at = Age(@), !.scanned_at = Age(@),
                              !.antivirus_scanned_at = Age(@)]
    /\ UNCHANGED <<variants, objects, streams, dlq, task, completes, notMedia>>

PostIds == 1..MaxPosts
MediaIds == {"null", "M"}

\* assertMediaClean: 404 without a row, 400 when quarantined or infected
MediaClean(row) == row.exists /\ ~row.quarantined /\ row.status # "infected"

\* PostsService.createDraft: with a mediaId assertMediaClean and
\* ref_count + 1, then INSERT posts, in one transaction
createDraft ==
    \E p \in PostIds, mediaId \in MediaIds :
        /\ posts[p] = "none" /\ \A q \in PostIds : q < p => posts[q] # "none"
        /\ IF mediaId = "M"
           THEN MediaClean(media) /\ media' = [media EXCEPT !.ref_count = @ + 1]
           ELSE media' = media
        /\ posts' = [posts EXCEPT ![p] = mediaId]
        /\ UNCHANGED <<variants, objects, streams, dlq, task, completes, notPipeline>>

\* scanOrphans: SELECT id ... WHERE ref_count = 0 AND antivirus_status <>
\* 'pending' AND created_at < now - grace
OrphanRow(row) ==
    row.exists /\ row.ref_count = 0 /\ row.status # "pending" /\ row.created_at = "old"

\* scanQuarantine: SELECT id ... WHERE quarantined = true AND scanned_at IS
\* NOT NULL AND scanned_at < now - ttl
ExpiredQuarantineRow(row) ==
    row.exists /\ row.quarantined /\ row.scanned_at # "null" /\ row.scanned_at = "old"

scanOrphans ==
    /\ task.scan.pc = "idle"
    /\ Run("scan", IF OrphanRow(media) THEN [pc |-> "variants", sweep |-> "orphans"]
                   ELSE [pc |-> "quarantine"])
    /\ UNCHANGED <<media, variants, objects, streams, dlq, completes, notMedia>>

scanQuarantine ==
    /\ task.scan.pc = "quarantine"
    /\ Run("scan", IF ExpiredQuarantineRow(media)
                   THEN [pc |-> "variants", sweep |-> "quarantine"] ELSE Idle)
    /\ UNCHANGED <<media, variants, objects, streams, dlq, completes, notMedia>>

\* deleteMedia(row.id) called by a sweep, statement by statement
scanDeleteMedia ==
    LET t == task.scan IN
    /\ t.pc \in {"variants", "orig", "s3many", "s3one", "row"}
    /\ Run("scan",
           CASE t.pc = "variants" ->
                  [pc |-> "orig", sweep |-> t.sweep, keys |-> {VariantKey(v) : v \in variants}]
             [] t.pc = "orig" ->
                  [pc |-> "s3many", sweep |-> t.sweep, keys |-> t.keys, orig |-> media.exists]
             [] t.pc = "s3many" -> [pc |-> "s3one", sweep |-> t.sweep, orig |-> t.orig]
             [] t.pc = "s3one" -> [pc |-> "row", sweep |-> t.sweep]
             [] t.pc = "row" -> IF t.sweep = "orphans" THEN [pc |-> "quarantine"] ELSE Idle)
    /\ objects' = CASE t.pc = "s3many" -> objects \ t.keys
                    [] t.pc = "s3one" /\ t.orig -> objects \ {ORIGINAL}
                    [] OTHER -> objects
    /\ media' = IF t.pc = "row" THEN [NoRow EXCEPT !.meta = media.meta] ELSE media
    /\ variants' = IF t.pc = "row" THEN {} ELSE variants
    /\ UNCHANGED <<streams, dlq, completes, notMedia>>

ScannerNext == scanOrphans \/ scanQuarantine \/ scanDeleteMedia

GcNext ==
    \/ initiateMultipart \/ completeUpload
    \/ AvScan \/ AvUpdateStatus \/ publishFollowupsIfClean_Mime \/ publishFollowupsIfClean_Publish
    \/ MetaDownload("meta") \/ writeSha_Select("meta") \/ writeSha_Write("meta") \/ MetaShaMismatch("meta")
    \/ upsertMetadata("meta") \/ maybeUpdateMime_Select("meta") \/ maybeUpdateMime_Update("meta")
    \/ Tick \/ createDraft \/ ScannerNext

\* a sweep is deleting M: its objects (S3 steps) or its row
SweepDeletes(sweep) ==
    /\ task.scan.pc \in {"s3many", "s3one", "row"} /\ task.scan.sweep = sweep
    /\ task'.scan # task.scan

\* C17: every media record that is quarantined (by an infected or error
\* verdict of the antivirus worker or by a hash mismatch in the metadata
\* worker) is eventually deleted by the background scanner once its scan is
\* older than the quarantine TTL, whatever its ref_count, unless a later
\* clean verdict releases it.
C17_QuarantinedEventuallyDeleted ==
    (media.exists /\ media.quarantined /\ media.status \in {"infected", "error"})
        ~> (~media.exists \/ ~media.quarantined)

\* C20: the orphan sweep deletes the objects and the row of a media record
\* only while its ref_count is 0 and its antivirus_status is not pending,
\* also when a post attaches the media concurrently with the sweep.
C20_OrphanSweepOnlyUnreferenced ==
    [][(SweepDeletes("orphans") /\ media.exists) =>
          (media.ref_count = 0 /\ media.status # "pending")]_vars

(***************************************************************************)
(* Garbage collector, stream jobs: delete_media and delete_variant with    *)
(* the outcomes of the object-store calls.  A DeleteObject(s) request on a *)
(* missing key succeeds; a request can fail as a whole (the SDK throws),   *)
(* and a DeleteObjects request can succeed while its response lists keys   *)
(* that were not deleted (Quiet mode returns only those).                  *)
(***************************************************************************)
\* s3DeleteMany: s3.send(DeleteObjectsCommand) throws
deleteMedia_S3DeleteManyThrows ==
    /\ task.gc.pc = "s3many" /\ task.gc.keys # {}
    /\ Fail("gc", GC, "s3_error")
    /\ UNCHANGED <<media, variants, objects, streams, completes, notMedia>>

\* s3DeleteMany: the response carries Errors for key k; it is not inspected
deleteMedia_S3DeleteManyErrors ==
    /\ task.gc.pc = "s3many"
    /\ \E k \in task.gc.keys \cap objects : objects' = objects \ (task.gc.keys \ {k})
    /\ Run("gc", [pc |-> "s3one", orig |-> task.gc.orig])
    /\ UNCHANGED <<media, variants, streams, dlq, completes, notMedia>>

\* s3DeleteOne(orig): s3.send(DeleteObjectCommand) throws
deleteMedia_S3DeleteOneThrows ==
    /\ task.gc.pc = "s3one" /\ task.gc.orig
    /\ Fail("gc", GC, "s3_error")
    /\ UNCHANGED <<media, variants, objects, streams, completes, notMedia>>

\* profiles a delete_variant job may name
DeleteVariantProfiles == {VidProfile("360p"), ImgOutputs[1].profile, <<"360p">>}

\* deleteVariant: DELETE FROM media_variants ... RETURNING storage_key
deleteVariant_DeleteRow ==
    /\ task.gc.pc = "idle" /\ streams[GC] > 0
    /\ Take(GC)
    /\ \E profile \in DeleteVariantProfiles :
         IF profile \in variants
         THEN /\ variants' = variants \ {profile}
              /\ Run("gc", [pc |-> "variant_s3", key |-> VariantKey(profile)])
         ELSE Run("gc", Idle) /\ UNCHANGED variants
    /\ UNCHANGED <<media, objects, dlq, completes, notMedia>>

\* deleteVariant: s3DeleteOne(key)
deleteVariant_S3DeleteOne ==
    /\ task.gc.pc = "variant_s3"
    /\ objects' = objects \ {task.gc.key}
    /\ Run("gc", Idle)
    /\ UNCHANGED <<media, variants, streams, dlq, completes, notMedia>>

GcJobsNext ==
    \/ initiateMultipart \/ completeUpload
    \/ AvScan \/ AvUpdateStatus \/ publishFollowupsIfClean_Mime \/ publishFollowupsIfClean_Publish
    \/ ImgGate \/ ImgSource \/ ImgUpload \/ ImgUpsert
    \/ PublishDeleteMedia
    \/ deleteMedia_FetchVariants \/ deleteMedia_FetchOriginalKey \/ deleteMedia_S3DeleteMany
    \/ deleteMedia_S3DeleteOne \/ deleteMedia_DeleteRow
    \/ deleteMedia_S3DeleteManyThrows \/ deleteMedia_S3DeleteManyErrors
    \/ deleteMedia_S3DeleteOneThrows
    \/ deleteVariant_DeleteRow \/ deleteVariant_S3DeleteOne

\* the collector's job slot takes a step from position pc
GcStep(pc) == task.gc.pc = pc /\ task'.gc # task.gc

\* C21: in a full media delete the row is deleted only after the delete of
\* all its variant objects and then the delete of its original object have
\* been issued and have succeeded, in that order; if an object-store delete
\* fails (a key the delete was issued for is still there when the call
\* returns), the job stops and the row and its variant rows are left in place.
C21_DeleteOrder ==
    [][/\ (media.exists /\ ~media'.exists) => task.gc.pc = "row"
       /\ GcStep("s3many") =>
             /\ media' = media /\ variants' = variants
             /\ task'.gc.pc = (IF task.gc.keys \cap objects' = {} THEN "s3one" ELSE "idle")
       /\ GcStep("s3one") =>
             /\ media' = media /\ variants' = variants
             /\ task'.gc.pc = (IF task.gc.orig /\ ORIGINAL \in objects' THEN "idle" ELSE "row")]_vars

MaxRefCount == 3
IncrementBys == {1, 0 - 1}

RefCountCheck_Absent(n) == TRUE

\* media_files: ref_count integer NOT NULL DEFAULT 0 CHECK (ref_count >= 0)
RefCountCheck(n) == n >= 0

\* UPDATE media_files SET ref_count = n: a row violating the CHECK is
\* rejected and the statement raises
RefCountUpdated(n) ==
    /\ RefCountCheck(n)
    /\ n <= MaxRefCount
    /\ media' = [media EXCEPT !.ref_count = n]

RefsFrame == UNCHANGED <<variants, objects, streams, dlq, task, completes, notPipeline>>

\* MediaService.incrementRefCount(mediaId, by): NOT_FOUND without a row
incrementRefCount ==
    \E by \in IncrementBys :
        /\ media.exists
        /\ RefCountUpdated(media.ref_count + by)
        /\ posts' = posts
        /\ RefsFrame

\* MediaService.tryDecrement: GREATEST(ref_count - 1, 0)
tryDecrement ==
    /\ media.exists
    /\ RefCountUpdated(Max2(media.ref_count - 1, 0))
    /\ posts' = posts
    /\ RefsFrame

\* PostsService.attachMedia(postId, mediaId | null), one transaction: lock
\* the post, assertMediaClean and ref_count + 1 for the new media, UPDATE
\* posts, GREATEST(0, ref_count - 1) for the old media when it differs
attachMedia ==
    \E p \in PostIds, mediaId \in MediaIds :
        LET oldId == posts[p]
            inc == IF mediaId = "M" THEN 1 ELSE 0
            dec == oldId = "M" /\ mediaId # "M"
        IN  /\ oldId # "none"
            /\ mediaId = "M" => MediaClean(media)
            /\ IF media.exists
               THEN RefCountUpdated(IF dec THEN Max2(0, media.ref_count + inc - 1)
                                    ELSE media.ref_count + inc)
               ELSE media' = media
            /\ posts' = [posts EXCEPT ![p] = mediaId]
            /\ RefsFrame

\* MessagesService.sendMedia: the media is checked clean, then ref_count + 1
\* and INSERT messages in one transaction
sendMedia ==
    /\ MediaClean(media)
    /\ RefCountUpdated(media.ref_count + 1)
    /\ posts' = posts
    /\ RefsFrame

RefsNext ==
    \/ initiateMultipart \/ completeUpload
    \/ AvScan \/ AvUpdateStatus \/ publishFollowupsIfClean_Mime \/ publishFollowupsIfClean_Publish
    \/ createDraft \/ attachMedia \/ sendMedia \/ incrementRefCount \/ tryDecrement

\* C23: in every reachable state the reference count of a media row is at
\* least 0, whatever sequence of incrementRefCount, tryDecrement,
\* createDraft, attachMedia and sendMedia ran, a decrement applied at 0
\* included.
C23_RefCountNonNegative == media.exists => media.ref_count >= 0

\* a post still naming M while ref_count is 0: detaching it decrements at 0
C23_Witness ==
    media.exists /\ media.ref_count = 0 /\ \E p \in PostIds : posts[p] = "M"

\* posts only: createDraft and attachMedia next to the upload and the
\* antivirus worker
PostsNext ==
    \/ initiateMultipart \/ completeUpload
    \/ AvScan \/ AvUpdateStatus \/ publishFollowupsIfClean_Mime \/ publishFollowupsIfClean_Publish
    \/ createDraft \/ attachMedia

\* C38: after any sequence of createDraft and attachMedia calls the
\* ref_count of a media equals the number of posts whose media_id references
\* it; attachMedia of the media the post already references leaves the
\* count unchanged.
C38_RefCountIsPostCount ==
    media.exists => media.ref_count = Cardinality({p \in PostIds : posts[p] = "M"})

(***************************************************************************)
(* Realtime gateway: websocket connections, local subscriptions and the    *)
(* reference-counted broker subscriptions.  A handler runs synchronously   *)
(* from one await to the next; each action is one such run.  An await of   *)
(* I/O (database, broker) resumes in a later event-loop turn; an await of  *)
(* an already settled promise resumes before the next event is taken, and  *)
(* each reply of the broker is processed in its own turn, in command order.*)
(***************************************************************************)
MaxConns == 2
MaxHandlers == 3
WS_MAX_SUBS == 1

Conns == 1..MaxConns
HandlerIds == 1..MaxHandlers
Users == {"U", "V"}

\* `rt:user:${userId}`
UserTopic(u) == IF u = "U" THEN "rt:user:U" ELSE "rt:user:V"

\* the topics in use: the identity topics of the two users
Topics == {UserTopic(u) : u \in Users}
maxSubs == Max2(1, WS_MAX_SUBS)

Free == [kind |-> "free", pc |-> "none"]

\* topic strings a client may name: the allowed ones and one that
\* isAllowedTopic rejects
TopicStrings == Topics \cup {"bogus"}

DefaultPingIntervalMs == 25000
NoSent == [kind |-> "none"]

IdleGw ==
    [userId |-> [c \in Conns |-> "none"],   \* ctx.userId
     ctxSubs |-> [c \in Conns |-> {}],
     topicToSockets |-> [t \in TopicStrings |-> {}],
     topicRefCount |-> [t \in TopicStrings |-> 0],
     brokerSubs |-> {},
     commandQueue |-> <<>>,
     sent |-> NoSent,                 \* the last frame(s) the gateway sent
     lastPongAge |-> [c \in Conns |-> 0],   \* Date.now() - ctx.lastPongAt
     sinceProbe |-> 0,                \* time since the ping timer last fired
     terminated |-> {},               \* connections the ping timer terminated
     pingIntervalMs |-> DefaultPingIntervalMs]

RtIdle ==
    /\ conn = [c \in Conns |-> "none"]
    /\ sockets = {}
    /\ gw = IdleGw
    /\ handlers = [h \in HandlerIds |-> Free]

\* the slot a newly started handler takes
MicrotaskPending == \E h \in HandlerIds : handlers[h].pc \in {"subscribed", "unsubscribed"}

IsNewHandler(h) ==
    /\ ~MicrotaskPending
    /\ handlers[h] = Free
    /\ \A k \in HandlerIds : k < h => handlers[k] # Free

\* redisSubscribe up to its await: the SUBSCRIBE command is issued, or the
\* count is incremented.  An absent map entry is the count 0.
redisSubscribe(g, h, t) ==
    IF g.topicRefCount[t] = 0
    THEN [g EXCEPT !.brokerSubs = @ \cup {t}, !.commandQueue = Append(@, h)]
    ELSE [g EXCEPT !.topicRefCount[t] = @ + 1]

\* redisUnsubscribe up to its await
redisUnsubscribe(g, h, t) ==
    LET n == g.topicRefCount[t] - 1 IN
    IF n <= 0
    THEN [g EXCEPT !.topicRefCount[t] = 0, !.brokerSubs = @ \ {t},
                   !.commandQueue = Append(@, h)]
    ELSE [g EXCEPT !.topicRefCount[t] = n]

\* ctx.subs.add(t); topicToSockets.get(t).add(ctx)
AddLocal(g, c, t) ==
    [g EXCEPT !.ctxSubs[c] = @ \cup {t}, !.topicToSockets[t] = @ \cup {c}]

\* topicToSockets.get(t)?.delete(ctx)
DropLocal(g, c, t) == [g EXCEPT !.topicToSockets[t] = @ \ {c}]

\* The subscribe loop of the connect handler and of a subscribe frame, from
\* the top of an iteration to the next await (or to the reply after the loop).
SubscribeLoop(h, kind, c, g, todo) ==
    LET rest == IF kind = "subscribe" THEN todo \ g.ctxSubs[c] ELSE todo IN
    IF rest = {}
    THEN /\ gw' = g
         /\ handlers' = [handlers EXCEPT ![h] = Free]
         \* the connect handler registers the message and close listeners
         /\ conn' = IF kind = "connect" /\ conn[c] = "connecting"
                    THEN [conn EXCEPT ![c] = "open"] ELSE conn
    ELSE /\ \E t \in rest :
              /\ gw' = redisSubscribe(g, h, t)
              /\ handlers' = [handlers EXCEPT ![h] =
                    [kind |-> kind, c |-> c, t |-> t, todo |-> rest \ {t},
                     pc |-> IF g.topicRefCount[t] = 0 THEN "subscribing" ELSE "subscribed"]]
         /\ UNCHANGED conn

\* The unsubscribe loop of an unsubscribe frame.
UnsubscribeLoop(h, c, g, todo) ==
    LET rest == todo \cap g.ctxSubs[c] IN
    IF rest = {}
    THEN gw' = g /\ handlers' = [handlers EXCEPT ![h] = Free]
    ELSE \E t \in rest :
           /\ gw' = redisUnsubscribe(DropLocal([g EXCEPT !.ctxSubs[c] = @ \ {t}], c, t), h, t)
           /\ handlers' = [handlers EXCEPT ![h] =
                 [kind |-> "unsubscribe", c |-> c, todo |-> rest \ {t},
                  pc |-> IF g.topicRefCount[t] - 1 <= 0 THEN "unsubscribing" ELSE "unsubscribed"]]

\* The loop of the close listener: for (const t of ctx.subs) ...; ctx.subs.clear()
CloseLoop(h, c, g, done) ==
    LET rest == g.ctxSubs[c] \ done IN
    IF rest = {}
    THEN gw' = [g EXCEPT !.ctxSubs[c] = {}] /\ handlers' = [handlers EXCEPT ![h] = Free]
    ELSE \E t \in rest :
           /\ gw' = redisUnsubscribe(DropLocal(g, c, t), h, t)
           /\ handlers' = [handlers EXCEPT ![h] =
                 [kind |-> "close", c |-> c, done |-> done \cup {t},
                  pc |-> IF g.topicRefCount[t] - 1 <= 0 THEN "unsubscribing" ELSE "unsubscribed"]]

\* the users a connection may authenticate as: the first connection is
\* U's, the second U's or V's
AuthUsers(c) == IF c = 1 THEN {"U"} ELSE Users

\* GET /ws: auth, sockets.add(ctx), await preloadUserTopics
WsConnect(c, h) ==
    /\ conn[c] = "none" /\ IsNewHandler(h)
    /\ conn' = [conn EXCEPT ![c] = "connecting"]
    /\ sockets' = sockets \cup {c}
    /\ handlers' = [handlers EXCEPT ![h] = [kind |-> "connect", c |-> c, pc |-> "preload"]]
    /\ \E u \in AuthUsers(c) : gw' = [gw EXCEPT !.userId[c] = u]
    /\ UNCHANGED notRT

\* preloadUserTopics(userId): the identity topic of the user first, then
\* the topics of the user's conversations and followed channels (here the
\* user has none)
preloadUserTopics(userId) == <<UserTopic(userId)>>

Range(seq) == {seq[i] : i \in 1..Len(seq)}

\* preloadUserTopics resolved: initTopics.slice(0, maxSubs)
PreloadDone(h) ==
    /\ ~MicrotaskPending
    /\ handlers[h].kind = "connect" /\ handlers[h].pc = "preload"
    /\ LET initTopics == preloadUserTopics(gw.userId[handlers[h].c])
       IN SubscribeLoop(h, "connect", handlers[h].c, gw,
                        Range(SubSeq(initTopics, 1, Min2(Len(initTopics), maxSubs))))
    /\ UNCHANGED <<sockets, notRT>>

\* the socket closes before the close listener is registered
CloseDuringPreload(c) ==
    /\ ~MicrotaskPending
    /\ conn[c] = "connecting"
    /\ conn' = [conn EXCEPT ![c] = "gone"]
    /\ UNCHANGED <<sockets, gw, handlers, notRT>>

\* ws.on('message'): {action: subscribe, topics: want}
SubscribeFrame(c, h) ==
    /\ conn[c] = "open" /\ IsNewHandler(h)
    /\ \E want \in (SUBSET Topics) \ {{}} :
         /\ Cardinality(gw.ctxSubs[c]) + Cardinality(want) <= maxSubs
         /\ SubscribeLoop(h, "subscribe", c, gw, want)
    /\ UNCHANGED <<sockets, notRT>>

\* ws.on('message'): {action: unsubscribe, topics: want}
UnsubscribeFrame(c, h) ==
    /\ conn[c] = "open" /\ IsNewHandler(h)
    /\ \E want \in (SUBSET Topics) \ {{}} : UnsubscribeLoop(h, c, gw, want)
    /\ UNCHANGED <<conn, sockets, notRT>>

\* ws.on('close')
WsClose(c, h) ==
    /\ conn[c] = "open" /\ IsNewHandler(h)
    /\ conn' = [conn EXCEPT ![c] = "closed"]
    /\ sockets' = sockets \ {c}
    /\ CloseLoop(h, c, gw, {})
    /\ UNCHANGED notRT

\* the broker's reply to the oldest outstanding command
IsNextReply(h) ==
    /\ ~MicrotaskPending
    /\ gw.commandQueue # <<>> /\ Head(gw.commandQueue) = h

\* sub.subscribe(topic) resolved: topicRefCount.set(topic, 1)
SubscribeReply(h) ==
    /\ IsNextReply(h) /\ handlers[h].pc = "subscribing"
    /\ gw' = [gw EXCEPT !.topicRefCount[handlers[h].t] = 1, !.commandQueue = Tail(@)]
    /\ handlers' = [handlers EXCEPT ![h].pc = "subscribed"]
    /\ UNCHANGED <<conn, sockets, notRT>>

\* sub.unsubscribe(topic) settled
UnsubscribeReply(h) ==
    /\ IsNextReply(h) /\ handlers[h].pc = "unsubscribing"
    /\ gw' = [gw EXCEPT !.commandQueue = Tail(@)]
    /\ handlers' = [handlers EXCEPT ![h].pc = "unsubscribed"]
    /\ UNCHANGED <<conn, sockets, notRT>>

\* await redisSubscribe(t) resumes: record the topic, go on with the loop
SubscribeResume(h) ==
    /\ handlers[h].kind \in {"connect", "subscribe"} /\ handlers[h].pc = "subscribed"
    /\ SubscribeLoop(h, handlers[h].kind, handlers[h].c,
                     AddLocal(gw, handlers[h].c, handlers[h].t), handlers[h].todo)
    /\ UNCHANGED <<sockets, notRT>>

\* await redisUnsubscribe(t) resumes in an unsubscribe frame
UnsubscribeResume(h) ==
    /\ handlers[h].kind = "unsubscribe" /\ handlers[h].pc = "unsubscribed"
    /\ UnsubscribeLoop(h, handlers[h].c, gw, handlers[h].todo)
    /\ UNCHANGED <<conn, sockets, notRT>>

\* await redisUnsubscribe(t) resumes in the close listener
CloseResume(h) ==
    /\ handlers[h].kind = "close" /\ handlers[h].pc = "unsubscribed"
    /\ CloseLoop(h, handlers[h].c, gw, handlers[h].done)
    /\ UNCHANGED <<conn, sockets, notRT>>

RtNext ==
    \/ \E c \in Conns, h \in HandlerIds :
         WsConnect(c, h) \/ SubscribeFrame(c, h) \/ UnsubscribeFrame(c, h) \/ WsClose(c, h)
    \/ \E c \in Conns : CloseDuringPreload(c)
    \/ \E h \in HandlerIds :
         \/ PreloadDone(h) \/ SubscribeReply(h) \/ UnsubscribeReply(h) \/ SubscribeResume(h)
         \/ UnsubscribeResume(h) \/ CloseResume(h)

Quiescent == \A h \in HandlerIds : handlers[h] = Free
LocalSubscribers(t) == {c \in Conns : t \in gw.ctxSubs[c]}

----
\* C6: whenever no handler is suspended mid-operation, a topic has a
\* broker-level subscription if and only if at least one local connection
\* is subscribed to it.
C6_BrokerSubIffLocalSubscriber ==
    Quiescent => \A t \in Topics : (t \in gw.brokerSubs) <=> (LocalSubscribers(t) # {})

\* C27: the subscription set of a connection never holds more topics than
\* the configured maximum, after the auto-subscription at connect and after
\* any subscribe frames, overlapping ones included.
C27_SubsWithinMax == \A c \in Conns : Cardinality(gw.ctxSubs[c]) <= maxSubs

\* the connection is closed and none of its handlers is still in flight
HandlerOf(c) == {h \in HandlerIds : handlers[h] # Free /\ handlers[h].c = c}
Departed(c) == conn[c] \in {"closed", "gone"} /\ HandlerOf(c) = {}

\* C34: once a connection has closed and all of its pending handlers have
\* finished, it is in the global socket set and in the local set of no
\* topic, and, with no handler in flight at all, no topic entry, count or
\* broker subscription remains for a topic no open connection is subscribed
\* to; a connection that closed during the preload or while a subscribe
\* handler awaited the broker included.
C34_ClosedConnectionLeavesNothing ==
    /\ \A c \in Conns : Departed(c) =>
          /\ c \notin sockets
          /\ \A t \in Topics : c \notin gw.topicToSockets[t]
    /\ Quiescent => \A t \in Topics :
          (t \in gw.brokerSubs \/ gw.topicRefCount[t] > 0 \/ gw.topicToSockets[t] # {}) =>
              \E c \in Conns : conn[c] = "open" /\ t \in gw.ctxSubs[c]

\* C39: a connection authenticated as user U is never subscribed to the
\* identity topic rt:user:V of another user V, and is never in the set of
\* connections that messages for rt:user:V are relayed to, after any sequence
\* of connect and subscribe frames.
C39_OwnIdentityTopicOnly ==
    \A c \in Conns, v \in Users :
        (UserTopic(v) \in gw.ctxSubs[c] \/ c \in gw.topicToSockets[UserTopic(v)]) =>
            gw.userId[c] = v

(***************************************************************************)
(* Realtime gateway: what goes out on the sockets.  Broker messages, the   *)
(* client frames that are answered at once, and the ping timer.            *)
(***************************************************************************)
\* sub.on('message') with a parseable message for topic t: ws.send is called
\* on every ctx of topicToSockets.get(t); a send that throws is caught and
\* the loop goes on.  The connections sent to are topicToSockets[t] of the
\* state the step starts in.
BrokerMessage(t) ==
    /\ ~MicrotaskPending
    /\ gw.topicToSockets[t] # {}
    /\ gw' = [gw EXCEPT !.sent = [kind |-> "forward", topic |-> t]]
    /\ UNCHANGED <<conn, sockets, handlers, notRT>>

RtMsgNext == RtNext \/ \E t \in Topics : BrokerMessage(t)

\* C28: a broker message for topic T is forwarded to every local connection
\* that is subscribed to T at that moment and to no connection that is not
\* subscribed to T, and the step changes no subscription state.
C28_ForwardToSubscribers ==
    [][(gw'.sent # gw.sent /\ gw'.sent.kind = "forward") =>
         LET topic == gw'.sent.topic
             to == gw.topicToSockets[topic]
         IN
         /\ \A c \in Conns :
              (conn[c] \in {"connecting", "open"} /\ topic \in gw.ctxSubs[c]) => c \in to
         /\ \A c \in to : topic \in gw.ctxSubs[c]
         /\ gw'.ctxSubs = gw.ctxSubs /\ gw'.topicToSockets = gw.topicToSockets
         /\ gw'.topicRefCount = gw.topicRefCount /\ gw'.brokerSubs = gw.brokerSubs
         /\ conn' = conn /\ sockets' = sockets]_vars

\* Client frames, by what the message listener looks at: whether the text
\* parses, the action, whether topics is an array, and the topic strings.
Frames ==
    {[json |-> FALSE, action |-> "none", isArray |-> FALSE, topics |-> {}]}
    \cup {[json |-> TRUE, action |-> a, isArray |-> FALSE, topics |-> {}] :
             a \in {"none", "ping", "publish", "subscribe"}}
    \cup {[json |-> TRUE, action |-> a, isArray |-> TRUE, topics |-> ts] :
             a \in {"subscribe", "unsubscribe"}, ts \in SUBSET TopicStrings}

PingFrames == {f \in Frames : f.json /\ f.action = "ping"}

isAllowedTopic_Any(s) == TRUE

isAllowedTopic(s) == s \in Topics

\* [...new Set(msg.topics.filter(isAllowedTopic))]
Want(frame) == {t \in frame.topics : isAllowedTopic(t)}

\* the error the message listener answers a frame with, "none" when the
\* frame is carried out
FrameError(frame, subsSize) ==
    IF ~frame.json THEN "bad_json"
    ELSE IF frame.action = "none" THEN "bad_payload"
    ELSE IF frame.action = "ping" THEN "none"
    ELSE IF frame.action \in {"subscribe", "unsubscribe"} /\ frame.isArray
    THEN IF Want(frame) = {} THEN "no_topics"
         ELSE IF frame.action = "subscribe" /\ subsSize + Cardinality(Want(frame)) > maxSubs
         THEN "too_many_subscriptions"
         ELSE "none"
    ELSE "unsupported_action"

Reply(c, ok, type) == [kind |-> "reply", c |-> c, ok |-> ok, type |-> type]

\* ws.on('message') for one frame
WsMessage(c, h, frame) ==
    /\ conn[c] = "open" /\ c \notin gw.terminated /\ IsNewHandler(h)
    /\ LET err == FrameError(frame, Cardinality(gw.ctxSubs[c])) IN
       IF err # "none"
       THEN /\ gw' = [gw EXCEPT !.sent = Reply(c, FALSE, err)]
            /\ UNCHANGED <<conn, handlers>>
       ELSE IF frame.action = "ping"
       THEN /\ gw' = [gw EXCEPT !.lastPongAge[c] = 0, !.sent = Reply(c, TRUE, "pong")]
            /\ UNCHANGED <<conn, handlers>>
       ELSE IF frame.action = "subscribe"
       THEN SubscribeLoop(h, "subscribe", c, gw, Want(frame))
       ELSE UnsubscribeLoop(h, c, gw, Want(frame)) /\ UNCHANGED conn
    /\ UNCHANGED <<sockets, notRT>>

\* a malformed frame: unparseable, no action, an unsupported
\* action, or subscribe/unsubscribe naming no valid topic
Malformed(frame) ==
    \/ ~frame.json
    \/ frame.action \notin {"ping", "subscribe", "unsubscribe"}
    \/ frame.action \in {"subscribe", "unsubscribe"} /\ frame.topics \cap Topics = {}

\* connections that connect, are subscribed to their identity topic and
\* send malformed frames, pings and unsubscribe frames; none closes or
\* sends a valid subscribe frame
RtFramesNext ==
    \/ \E c \in Conns, h \in HandlerIds : WsConnect(c, h)
    \/ \E c \in Conns, h \in HandlerIds, frame \in Frames :
         (frame.action = "subscribe" => Malformed(frame)) /\ WsMessage(c, h, frame)
    \/ \E h \in HandlerIds :
         \/ PreloadDone(h) \/ SubscribeReply(h) \/ SubscribeResume(h)
         \/ UnsubscribeReply(h) \/ UnsubscribeResume(h)

MalformedFrames == {frame \in Frames : Malformed(frame)}

\* C30: a malformed client frame is answered with an error frame on the same
\* connection; the connection stays open, and the subscription sets, the
\* topic map, the broker reference counts and the broker subscriptions are
\* unchanged.
C30_MalformedFrameAnswered ==
    [][\A c \in Conns, h \in HandlerIds, frame \in MalformedFrames :
         (conn[c] = "open" /\ IsNewHandler(h) /\ WsMessage(c, h, frame)) =>
             /\ gw'.sent.kind = "reply" /\ gw'.sent.c = c /\ ~gw'.sent.ok
             /\ conn'[c] = "open" /\ sockets' = sockets
             /\ gw'.ctxSubs = gw.ctxSubs /\ gw'.topicToSockets = gw.topicToSockets
             /\ gw'.topicRefCount = gw.topicRefCount /\ gw'.brokerSubs = gw.brokerSubs
             /\ handlers' = handlers]_vars

\* C30 witness: a subscribed, open connection was answered no_topics
C30_Witness ==
    \E c \in Conns :
        /\ gw.sent = Reply(c, FALSE, "no_topics")
        /\ conn[c] = "open" /\ gw.ctxSubs[c] # {}

(***************************************************************************)
(* Realtime gateway: the ping timer.  Time advances in steps; the timer    *)
(* fires when its period has elapsed.  WS_PING_INTERVAL_MS is read from    *)
(* the environment once, at start.                                         *)
(***************************************************************************)
TimeStepMs == 5 * 1000
PingIntervals == {DefaultPingIntervalMs, 1000}

\* setInterval(..., Math.max(10_000, Number(WS_PING_INTERVAL_MS) || 25_000))
probePeriod(ms) == Max2(10000, IF ms = 0 THEN 25000 ELSE ms)

\* now - ctx.lastPongAt > Number(WS_PING_INTERVAL_MS) * 2
probeThreshold(ms) == ms * 2

AgeCap == 2 * DefaultPingIntervalMs + TimeStepMs

\* the clock moves on by one step, up to the moment the timer is due
TimePasses ==
    /\ gw.sinceProbe < probePeriod(gw.pingIntervalMs)
    /\ gw' = [gw EXCEPT !.sinceProbe = @ + TimeStepMs,
                        !.lastPongAge = [c \in Conns |->
                            IF c \in sockets THEN Min2(@[c] + TimeStepMs, AgeCap) ELSE @[c]]]
    /\ UNCHANGED <<conn, sockets, handlers, notRT>>

\* the ping timer fires: every ctx of sockets that is over the threshold is
\* terminated, the others are sent a probe frame
ProbeTick ==
    /\ ~MicrotaskPending
    /\ gw.sinceProbe >= probePeriod(gw.pingIntervalMs)
    /\ gw' = [gw EXCEPT !.sinceProbe = 0,
                        !.terminated = @ \cup {c \in sockets :
                            gw.lastPongAge[c] > probeThreshold(gw.pingIntervalMs)}]
    /\ UNCHANGED <<conn, sockets, handlers, notRT>>

\* connections that connect, send pings, are probed and close
RtProbeNext ==
    \/ \E c \in Conns, h \in HandlerIds : WsConnect(c, h) \/ WsClose(c, h)
    \/ \E c \in Conns, h \in HandlerIds, frame \in PingFrames : WsMessage(c, h, frame)
    \/ \E h \in HandlerIds :
         \/ PreloadDone(h) \/ SubscribeReply(h) \/ UnsubscribeReply(h) \/ SubscribeResume(h)
         \/ CloseResume(h)
    \/ TimePasses \/ ProbeTick

ProbeStep == gw.sinceProbe >= probePeriod(gw.pingIntervalMs) /\ gw'.sinceProbe = 0

\* C29: at a probe tick, an open connection that showed no liveness for
\* more than two probe intervals is terminated, and an open connection that
\* showed liveness within the last probe interval is not terminated.
C29_ProbeTermination ==
    [][ProbeStep =>
         \A c \in sockets :
             (conn[c] = "open" /\ c \notin gw.terminated) =>
                 /\ gw.lastPongAge[c] > 2 * probePeriod(gw.pingIntervalMs)
                       => c \in gw'.terminated
                 /\ gw.lastPongAge[c] < probePeriod(gw.pingIntervalMs)
                       => c \notin gw'.terminated]_vars

(***************************************************************************)
(* Video renditions: selectRenditions as a function of the source height   *)
(* and the configured HLS_MAX_VARIANTS.                                    *)
(***************************************************************************)
NoCalc == [pc |-> "none"]
NoSessions == <<>>

\* refresh calls and their bound; a call that has not started
MaxSessions == 3
MaxCalls == 2
CallIds == 1..MaxCalls
NewCall == [pc |-> "new", token |-> 0, sess |-> 0, result |-> "none"]
IdleAuth == [sessions |-> NoSessions, calls |-> [k \in CallIds |-> NewCall]]

AuthIdle == calc = NoCalc /\ auth = IdleAuth

SourceHeightInputs ==
    {0, 240, 351, 352, 353, 360, 471, 472, 480, 711, 712, 720, 1071, 1072, 1080, 2160}
MaxVariantInputs == 1..5

RenditionsInit ==
    /\ \E h \in SourceHeightInputs, m \in MaxVariantInputs :
         calc = [pc |-> "input", srcH |-> h, max |-> m, out |-> <<>>]
    /\ auth = IdleAuth

ApplySelectRenditions ==
    /\ calc.pc = "input"
    /\ calc' = [calc EXCEPT !.pc = "done", !.out = selectRenditionsWith(calc.srcH, calc.max)]
    /\ UNCHANGED <<auth, notAuth>>

ProfileNames(seq) == [i \in 1..Len(seq) |-> seq[i].profile]
FittingCount(srcH) == Cardinality({i \in 1..Len(Ladder) : Ladder[i].height <= srcH + 8})

\* C31: the result is the ladder profiles, in the order 360p, 480p, 720p,
\* 1080p, whose height is at most the source height + 8, cut to the first
\* max-rendition-count of them; source height 480 with max 4 gives exactly
\* 360p and 480p.
C31_SelectRenditions ==
    calc.pc = "done" =>
        /\ ProfileNames(calc.out) =
               SubSeq(<<"360p", "480p", "720p", "1080p">>, 1,
                      Min2(FittingCount(calc.srcH), calc.max))
        /\ (calc.srcH = 480 /\ calc.max = 4) => ProfileNames(calc.out) = <<"360p", "480p">>

\* C31 witness: a source 8 below a ladder height with a cut that drops a fit
C31_Witness ==
    /\ calc.pc = "done" /\ calc.srcH = 712 /\ calc.max = 2
    /\ ProfileNames(calc.out) = <<"360p", "480p">>

(***************************************************************************)
(* AuthService access tokens: signAccessJwt and verifyAccessJwt over the   *)
(* env object the service was constructed with.  A token is the set of     *)
(* claims it carries; the signature is made and checked with one secret.   *)
(***************************************************************************)
Unset == "unset"

JwtEnvs ==
    [AUTH_JWT_ISS : {Unset, "iss.short"}, AUTH_JWT_AUD : {Unset, "aud.short"},
     AUTH_JWT_ISSUER : {Unset, "https://issuer.example"}, AUTH_JWT_AUDIENCE : {Unset, "app"}]

\* the argument of signAccessJwt: sub and custom claims
JwtPayloads == [sub : {"user1", "user2"}, scope : {Unset, "read", "write"}]

OrDefault(v, d) == IF v = Unset THEN d ELSE v

\* new SignJWT({}).setSubject(payload.sub).setIssuer(iss).setAudience(aud)...
signAccessJwt(payload, env) ==
    [sub |-> payload.sub, scope |-> Unset,
     iss |-> OrDefault(env.AUTH_JWT_ISS, "messenger.api"),
     aud |-> OrDefault(env.AUTH_JWT_AUD, "messenger.web")]

\* jwtVerify(token, secret, {issuer, audience}): the payload, or a throw
verifyAccessJwt(token, env) ==
    IF /\ token.iss = OrDefault(env.AUTH_JWT_ISS, "messenger.api")
       /\ token.aud = OrDefault(env.AUTH_JWT_AUD, "messenger.web")
    THEN [ok |-> TRUE, payload |-> token]
    ELSE [ok |-> FALSE]

JwtInit ==
    /\ \E p \in JwtPayloads, e \in JwtEnvs : calc = [pc |-> "input", p |-> p, env |-> e]
    /\ auth = IdleAuth

JwtSign ==
    /\ calc.pc = "input"
    /\ calc' = [pc |-> "signed", p |-> calc.p, env |-> calc.env,
                token |-> signAccessJwt(calc.p, calc.env)]
    /\ UNCHANGED <<auth, notAuth>>

JwtVerify ==
    /\ calc.pc = "signed"
    /\ calc' = [pc |-> "verified", p |-> calc.p, env |-> calc.env,
                res |-> verifyAccessJwt(calc.token, calc.env)]
    /\ UNCHANGED <<auth, notAuth>>

JwtNext == JwtSign \/ JwtVerify

\* C32: verifying a freshly signed token succeeds and returns a payload
\* with the custom claims of the signed payload (scope) and with the issuer
\* and audience configured as AUTH_JWT_ISSUER and AUTH_JWT_AUDIENCE.
C32_JwtRoundTrip ==
    calc.pc = "verified" =>
        /\ calc.res.ok
        /\ calc.res.payload.sub = calc.p.sub
        /\ calc.res.payload.scope = calc.p.scope
        /\ calc.env.AUTH_JWT_ISSUER # Unset => calc.res.payload.iss = calc.env.AUTH_JWT_ISSUER
        /\ calc.env.AUTH_JWT_AUDIENCE # Unset => calc.res.payload.aud = calc.env.AUTH_JWT_AUDIENCE

(***************************************************************************)
(* AuthService sessions: the auth_sessions table, login, logout and the    *)
(* rotation of refresh tokens.  A refresh token is opaque and random, so   *)
(* it is named by the id of the session whose refresh_hash it matches.     *)
(***************************************************************************)
SessionIds == 1..MaxSessions

\* issueTokensAndSession: INSERT INTO auth_sessions ... RETURNING id
NewSession == [revoked_at |-> "null", replaced_by |-> 0, expired |-> FALSE]

login ==
    /\ Len(auth.sessions) < MaxSessions
    /\ auth' = [auth EXCEPT !.sessions = Append(@, NewSession)]
    /\ UNCHANGED <<calc, notAuth>>

\* logout({refreshToken}): UPDATE ... SET revoked_at = now WHERE refresh_hash
\* = $1 AND revoked_at IS NULL
logout ==
    \E t \in SessionIds :
        /\ t <= Len(auth.sessions) /\ auth.sessions[t].revoked_at = "null"
        /\ auth' = [auth EXCEPT !.sessions[t].revoked_at = "now"]
        /\ UNCHANGED <<calc, notAuth>>

\* expires_at of a session passes
SessionExpires ==
    \E t \in SessionIds :
        /\ t <= Len(auth.sessions) /\ ~auth.sessions[t].expired
        /\ auth' = [auth EXCEPT !.sessions[t].expired = TRUE]
        /\ UNCHANGED <<calc, notAuth>>

\* the WHERE clause of the SELECT of refresh, next to refresh_hash = $1
ActiveSession(row) == row.revoked_at = "null"

\* refresh(t) up to its second query: SELECT the active session by hash;
\* no row -> 401 invalid_refresh, expired -> 401 refresh_expired
refresh_Select(k) ==
    \E t \in SessionIds :
        /\ auth.calls[k].pc = "new"
        /\ auth' = [auth EXCEPT !.calls[k] =
              IF ~(t <= Len(auth.sessions) /\ ActiveSession(auth.sessions[t]))
              THEN [pc |-> "done", token |-> t, sess |-> 0, result |-> "invalid_refresh"]
              ELSE IF auth.sessions[t].expired
              THEN [pc |-> "done", token |-> t, sess |-> 0, result |-> "refresh_expired"]
              ELSE [pc |-> "rotate", token |-> t, sess |-> t, result |-> "none"]]
        /\ UNCHANGED <<calc, notAuth>>

\* refresh(t), the rotation: WITH new_sess AS (INSERT ...) UPDATE
\* auth_sessions SET replaced_by = new id WHERE id = sess.id; the new
\* tokens are returned
refresh_Rotate(k) ==
    /\ auth.calls[k].pc = "rotate"
    /\ Len(auth.sessions) < MaxSessions
    /\ LET new == Len(auth.sessions) + 1 IN
       auth' = [auth EXCEPT
                  !.sessions = Append([@ EXCEPT ![auth.calls[k].sess].replaced_by = new],
                                      NewSession),
                  !.calls[k] = [@ EXCEPT !.pc = "done", !.result = "ok"]]
    /\ UNCHANGED <<calc, notAuth>>

AuthNext ==
    \/ login \/ logout \/ SessionExpires
    \/ \E k \in CallIds : refresh_Select(k) \/ refresh_Rotate(k)

\* C40: a refresh token is redeemable at most once: of all refresh calls
\* with one token, one after the other or concurrent, at most one succeeds.
C40_RefreshOnce ==
    \A j, k \in CallIds :
        (/\ auth.calls[j].result = "ok" /\ auth.calls[k].result = "ok"
         /\ auth.calls[j].token = auth.calls[k].token) => j = k

(***************************************************************************)
(* Queue runtime: the consume loop of one worker process on one stream and *)
(* consumer group.  The antivirus, metadata, image-variant, transcode and  *)
(* GC workers share one loop; the search indexer and the notify drain have *)
(* their own.  Broker calls succeed.                                       *)
(***************************************************************************)
MaxEntries == 3
MaxCrashes == 1

MediaWorkers == {"antivirus", "metadata", "image", "transcode", "gc"}
WorkerKinds == MediaWorkers \cup {"search", "notify"}
EntryIds == 1..MaxEntries

\* Math.max(1, Number(CONCURRENCY) || d) with each worker's default
concurrency == IF qKind \in {"gc", "transcode"} THEN 1 ELSE 2
\* the COUNT of the worker's XREADGROUP
ReadCount == IF qKind = "notify" THEN 10 ELSE concurrency

\* Payload texts a producer may write, and JSON.parse / JSON.stringify on them.
BadJson == "{bad"
CanonicalJson == "{\"id\":\"M\"}"
SpacedJson == "{ \"id\": \"M\" }"
PayloadTexts == {BadJson, CanonicalJson, SpacedJson}
Parses(text) == text # BadJson
JsonParse(text) == [id |-> "M"]
JsonStringify(value) == CanonicalJson

ErrorTexts == {"s3_missing"}
NoHist == [invoked |-> 0, acks |-> 0, outcome |-> "none", settled |-> FALSE]
NextEntry == Head(qWorker.batch)
Stopped == [pc |-> "start", batch |-> <<>>, jobs |-> [e \in EntryIds |-> "none"]]
NoGroup == [exists |-> FALSE, lastDelivered |-> 0, pel |-> {}]

QueueRest ==
    /\ qStream = <<>>
    /\ qGroup = NoGroup
    /\ qWorker = Stopped
    /\ qHist = [e \in EntryIds |-> NoHist]
    /\ qDlq = <<>>
    /\ crashes = 0

QueueIdle == qKind = "none" /\ QueueRest

inflight == {e \in EntryIds : qWorker.jobs[e] # "none"}

\* XGROUP CREATE stream group 0 MKSTREAM; BUSYGROUP is ignored
ensureGroup_Recreate(g) == [exists |-> TRUE, lastDelivered |-> 0, pel |-> {}]

ensureGroup(g) ==
    IF g.exists THEN g ELSE [exists |-> TRUE, lastDelivered |-> 0, pel |-> {}]

\* XACK stream group id
xack(e) == [qGroup EXCEPT !.pel = @ \ {e}]

\* XADD dlq * reason .. error .. data ..
DeadLetter(e, reason, error, data) ==
    Append(qDlq, [entry |-> e, reason |-> reason, error |-> error, data |-> data,
                  acked |-> qHist[e].acks > 0])

\* a producer appends an entry
Xadd ==
    /\ qKind # "none" /\ Len(qStream) < MaxEntries
    /\ \E text \in PayloadTexts : qStream' = Append(qStream, text)
    /\ UNCHANGED <<qKind, qGroup, qWorker, qHist, qDlq, crashes, notQueue>>

\* loop(): await ensureGroup(); consumer = fresh name
WorkerStart ==
    /\ qKind # "none" /\ qWorker.pc = "start"
    /\ qGroup' = ensureGroup(qGroup)
    /\ qWorker' = [qWorker EXCEPT !.pc = "read"]
    /\ UNCHANGED <<qKind, qStream, qHist, qDlq, crashes, notQueue>>

\* the process dies; whatever it held in memory is lost
Crash ==
    /\ qWorker.pc # "start" /\ crashes < MaxCrashes
    /\ crashes' = crashes + 1
    /\ qWorker' = Stopped
    /\ UNCHANGED <<qKind, qStream, qGroup, qHist, qDlq, notQueue>>

\* while (inflight.size >= concurrency) await Promise.race(inflight): the
\* loop goes on to readOnce() only below the bound
MayRead_NoWait == TRUE

MayRead == Cardinality(inflight) < concurrency

\* XREADGROUP GROUP g consumer COUNT n STREAMS stream '>'
XReadGroup ==
    /\ qWorker.pc = "read"
    /\ MayRead
    /\ qGroup.lastDelivered < Len(qStream)
    /\ LET last == Min2(Len(qStream), qGroup.lastDelivered + ReadCount)
           ids == (qGroup.lastDelivered + 1)..last
       IN /\ qGroup' = [qGroup EXCEPT !.lastDelivered = last, !.pel = @ \cup ids]
          /\ qWorker' = [qWorker EXCEPT !.pc = "entries",
                            !.batch = [i \in 1..(last - qGroup.lastDelivered) |->
                                          qGroup.lastDelivered + i]]
    /\ UNCHANGED <<qKind, qStream, qHist, qDlq, crashes, notQueue>>

\* the for loop of readOnce is over
BatchDone ==
    /\ qWorker.pc = "entries" /\ qWorker.batch = <<>>
    /\ qWorker' = [qWorker EXCEPT !.pc = "read"]
    /\ UNCHANGED <<qKind, qStream, qGroup, qHist, qDlq, crashes, notQueue>>

----
\* Media workers, readOnce: JSON.parse failed -> await xack
MediaBadJson ==
    /\ qKind \in MediaWorkers /\ qWorker.pc = "entries" /\ qWorker.batch # <<>>
    /\ ~Parses(qStream[NextEntry])
    /\ qGroup' = xack(NextEntry)
    /\ qHist' = [qHist EXCEPT ![NextEntry].acks = @ + 1, ![NextEntry].outcome = "bad_json"]
    /\ qWorker' = [qWorker EXCEPT !.pc = "bad_json"]
    /\ UNCHANGED <<qKind, qStream, qDlq, crashes, notQueue>>

\* ... -> await xadd(DLQ, reason bad_json, data String(dataStr)); continue
MediaBadJsonDlq ==
    /\ qWorker.pc = "bad_json"
    /\ qDlq' = DeadLetter(NextEntry, "bad_json", "", qStream[NextEntry])
    /\ qHist' = [qHist EXCEPT ![NextEntry].settled = TRUE]
    /\ qWorker' = [qWorker EXCEPT !.pc = "entries", !.batch = Tail(@)]
    /\ UNCHANGED <<qKind, qStream, qGroup, crashes, notQueue>>

\* Media workers, readOnce: the job wrapper starts processJob(payload)
MediaStartJob ==
    /\ qKind \in MediaWorkers /\ qWorker.pc = "entries" /\ qWorker.batch # <<>>
    /\ Parses(qStream[NextEntry])
    /\ qHist' = [qHist EXCEPT ![NextEntry].invoked = @ + 1]
    /\ qWorker' = [qWorker EXCEPT !.jobs[NextEntry] = "handler", !.batch = Tail(@)]
    /\ UNCHANGED <<qKind, qStream, qGroup, qDlq, crashes, notQueue>>

\* processJob returned: await xack.  The metadata handler may have appended
\* a sha_mismatch entry before returning.
MediaHandlerReturn(e) ==
    /\ qKind \in MediaWorkers /\ qWorker.jobs[e] = "handler"
    /\ \E mismatch \in {FALSE, qKind = "metadata"} :
         qDlq' = IF mismatch THEN DeadLetter(e, "sha_mismatch", "", JsonStringify(JsonParse(qStream[e])))
                 ELSE qDlq
    /\ qGroup' = xack(e)
    /\ qHist' = [qHist EXCEPT ![e].acks = @ + 1, ![e].outcome = "returned", ![e].settled = TRUE]
    /\ qWorker' = [qWorker EXCEPT !.jobs[e] = "none"]
    /\ UNCHANGED <<qKind, qStream, crashes, notQueue>>

\* processJob threw: catch -> await xack
MediaHandlerThrow(e) ==
    /\ qKind \in MediaWorkers /\ qWorker.jobs[e] = "handler"
    /\ qGroup' = xack(e)
    /\ qHist' = [qHist EXCEPT ![e].acks = @ + 1, ![e].outcome = "threw"]
    /\ \E err \in ErrorTexts : qWorker' = [qWorker EXCEPT !.jobs[e] = err]
    /\ UNCHANGED <<qKind, qStream, qDlq, crashes, notQueue>>

\* ... -> await xadd(DLQ, processing_failed, error, JSON.stringify(payload))
MediaFailedDlq(e) ==
    /\ qKind \in MediaWorkers /\ qWorker.jobs[e] \in ErrorTexts
    /\ qDlq' = DeadLetter(e, "processing_failed", qWorker.jobs[e],
                          JsonStringify(JsonParse(qStream[e])))
    /\ qHist' = [qHist EXCEPT ![e].settled = TRUE]
    /\ qWorker' = [qWorker EXCEPT !.jobs[e] = "none"]
    /\ UNCHANGED <<qKind, qStream, qGroup, crashes, notQueue>>

----
\* Search indexer, readOnce: the job starts; JSON.parse is inside its try,
\* a parse error goes to the same catch as a handler error.
SearchStartJob ==
    /\ qKind = "search" /\ qWorker.pc = "entries" /\ qWorker.batch # <<>>
    /\ IF Parses(qStream[NextEntry])
       THEN /\ qHist' = [qHist EXCEPT ![NextEntry].invoked = @ + 1]
            /\ qWorker' = [qWorker EXCEPT !.jobs[NextEntry] = "handler", !.batch = Tail(@)]
            /\ UNCHANGED qDlq
       ELSE /\ qDlq' = DeadLetter(NextEntry, "processing_failed", "Unexpected token",
                                  qStream[NextEntry])
            /\ qHist' = [qHist EXCEPT ![NextEntry].outcome = "bad_json"]
            /\ qWorker' = [qWorker EXCEPT !.jobs[NextEntry] = "finally", !.batch = Tail(@)]
    /\ UNCHANGED <<qKind, qStream, qGroup, crashes, notQueue>>

\* indexDoc / deleteDoc threw: catch -> await xadd(DLQ, ..., String(dataStr))
SearchHandlerThrow(e) ==
    /\ qKind = "search" /\ qWorker.jobs[e] = "handler"
    /\ \E err \in ErrorTexts : qDlq' = DeadLetter(e, "processing_failed", err, qStream[e])
    /\ qHist' = [qHist EXCEPT ![e].outcome = "threw"]
    /\ qWorker' = [qWorker EXCEPT !.jobs[e] = "finally"]
    /\ UNCHANGED <<qKind, qStream, qGroup, crashes, notQueue>>

\* finally: await xack, after a normal return or after the catch
SearchFinallyAck(e) ==
    /\ qKind = "search" /\ qWorker.jobs[e] \in {"handler", "finally"}
    /\ qGroup' = xack(e)
    /\ qHist' = [qHist EXCEPT ![e].acks = @ + 1, ![e].settled = TRUE,
                   ![e].outcome = IF qWorker.jobs[e] = "handler" THEN "returned" ELSE @]
    /\ qWorker' = [qWorker EXCEPT !.jobs[e] = "none"]
    /\ UNCHANGED <<qKind, qStream, qDlq, crashes, notQueue>>

----
\* Notify drain: malformed -> xack; otherwise deliver (log) -> xack
NotifyEntry ==
    /\ qKind = "notify" /\ qWorker.pc = "entries" /\ qWorker.batch # <<>>
    /\ qGroup' = xack(NextEntry)
    /\ qHist' = [qHist EXCEPT
                   ![NextEntry].acks = @ + 1, ![NextEntry].settled = TRUE,
                   ![NextEntry].invoked = IF Parses(qStream[NextEntry]) THEN @ + 1 ELSE @,
                   ![NextEntry].outcome = IF Parses(qStream[NextEntry]) THEN "returned"
                                          ELSE "bad_json"]
    /\ qWorker' = [qWorker EXCEPT !.batch = Tail(@)]
    /\ UNCHANGED <<qKind, qStream, qDlq, crashes, notQueue>>

\* the steps of the running worker process
WorkerSteps ==
    \/ WorkerStart \/ XReadGroup \/ BatchDone
    \/ MediaBadJson \/ MediaBadJsonDlq \/ MediaStartJob
    \/ SearchStartJob \/ NotifyEntry
    \/ \E e \in EntryIds :
         \/ MediaHandlerReturn(e) \/ MediaHandlerThrow(e) \/ MediaFailedDlq(e)
         \/ SearchHandlerThrow(e) \/ SearchFinallyAck(e)

QueueNext == Xadd \/ Crash \/ WorkerSteps

----
\* Broker errors in the malformed-entry branch of readOnce.  The awaited
\* call rejects inside the catch block, readOnce() rejects, the loop logs
\* 'read loop error', sleeps and calls readOnce() again: the rest of the
\* batch is dropped from memory.
MediaBadJsonAckFails ==
    /\ qKind \in MediaWorkers /\ qWorker.pc = "entries" /\ qWorker.batch # <<>>
    /\ ~Parses(qStream[NextEntry])
    /\ qHist' = [qHist EXCEPT ![NextEntry].outcome = "bad_json"]
    /\ qWorker' = [qWorker EXCEPT !.pc = "read", !.batch = <<>>]
    /\ UNCHANGED <<qKind, qStream, qGroup, qDlq, crashes, notQueue>>

MediaBadJsonDlqFails ==
    /\ qWorker.pc = "bad_json"
    /\ qWorker' = [qWorker EXCEPT !.pc = "read", !.batch = <<>>]
    /\ UNCHANGED <<qKind, qStream, qGroup, qHist, qDlq, crashes, notQueue>>

\* the worker process keeps running (no crash); broker calls may fail
QueueErrNext == Xadd \/ WorkerSteps \/ MediaBadJsonAckFails \/ MediaBadJsonDlqFails

\* the dead-letter entries the consume loop appended for entry e (the
\* metadata handler's own sha_mismatch entries are not the loop's)
DlqOf(e) == SelectSeq(qDlq, LAMBDA d : d.entry = e /\ d.reason # "sha_mismatch")
Settled(e) == e <= Len(qStream) /\ qHist[e].settled

----
\* C8: in every worker, an entry whose payload fails to parse is acknowledged
\* exactly once, its handler is not invoked, and exactly one dead-letter entry
\* with reason "bad_json" and the original payload is appended.
C8_BadJsonDeadLettered ==
    \A e \in EntryIds :
        (Settled(e) /\ ~Parses(qStream[e])) =>
            /\ qHist[e].acks = 1
            /\ qHist[e].invoked = 0
            /\ Len(DlqOf(e)) = 1
            /\ DlqOf(e)[1].reason = "bad_json"
            /\ DlqOf(e)[1].data = qStream[e]

\* C9: an entry whose payload parses and whose handler throws is acknowledged
\* and then dead-lettered exactly once, with reason "processing_failed", the
\* error text and the original payload; an entry whose handler returns
\* normally is acknowledged and the loop appends no dead-letter entry for it.
C9_HandlerOutcomeDeadLettering ==
    \A e \in EntryIds :
        (Settled(e) /\ Parses(qStream[e])) =>
            /\ qHist[e].acks = 1
            /\ qHist[e].outcome = "returned" => DlqOf(e) = <<>>
            /\ qHist[e].outcome = "threw" =>
                 /\ Len(DlqOf(e)) = 1
                 /\ DlqOf(e)[1].acked
                 /\ DlqOf(e)[1].reason = "processing_failed"
                 /\ DlqOf(e)[1].error \in ErrorTexts
                 /\ DlqOf(e)[1].data = qStream[e]

C11_InflightBounded == Cardinality(inflight) <= concurrency

\* C12: a read is issued (the group's last-delivered id advances) only while
\* the number of outstanding jobs is below the CONCURRENCY setting; at or
\* above it the loop waits for a job to settle first.
C12_NoReadAtBound ==
    [][qGroup'.lastDelivered > qGroup.lastDelivered => Cardinality(inflight) < concurrency]_vars

\* the loop is waiting at the bound while an undelivered entry is in the stream
C12_Witness ==
    /\ qWorker.pc = "read" /\ Cardinality(inflight) >= concurrency
    /\ qGroup.lastDelivered < Len(qStream)

\* C37: every entry a read returned to a worker is eventually acknowledged,
\* after it was handled or dead-lettered, the entries that follow a
\* malformed entry in the same batch included, also when the acknowledge
\* or the dead-letter append for the malformed entry fails.
C37_EveryEntryAcked ==
    \A e \in EntryIds : (e \in qGroup.pel) ~> (e \notin qGroup.pel)

(***************************************************************************)
(* Specifications: one per subsystem, the other subsystems stay idle.      *)
(***************************************************************************)
IdemInit == IdemIdle /\ UpIdle /\ MediaIdle /\ RtIdle /\ QueueIdle /\ AuthIdle
SpecIdem == IdemInit /\ [][IdemNext]_vars

UpInit == UpIdle /\ IdemIdle /\ MediaIdle /\ RtIdle /\ QueueIdle /\ AuthIdle
SpecUpload == UpInit /\ [][UpNext]_vars

MediaInit == MediaIdle /\ IdemIdle /\ UpIdle /\ RtIdle /\ QueueIdle /\ AuthIdle
SpecMedia == MediaInit /\ [][MediaNext]_vars

RtInit == RtIdle /\ IdemIdle /\ UpIdle /\ MediaIdle /\ QueueIdle /\ AuthIdle
SpecRT == RtInit /\ [][RtNext]_vars
SpecRtMsg == RtInit /\ [][RtMsgNext]_vars
SpecRtFrames == RtInit /\ [][RtFramesNext]_vars

RtProbeInit ==
    /\ conn = [c \in Conns |-> "none"] /\ sockets = {}
    /\ handlers = [h \in HandlerIds |-> Free]
    /\ \E ms \in PingIntervals : gw = [IdleGw EXCEPT !.pingIntervalMs = ms]
    /\ IdemIdle /\ UpIdle /\ MediaIdle /\ QueueIdle /\ AuthIdle
SpecRtProbe == RtProbeInit /\ [][RtProbeNext]_vars

SpecMediaSvc == MediaInit /\ [][MediaSvcNext]_vars

SpecGc == MediaInit /\ [][GcNext]_vars

\* the scanner loop keeps running and time passes
SpecGcLive == SpecGc /\ WF_vars(ScannerNext) /\ WF_vars(Tick)

SpecMeta == MediaInit /\ [][MetaNext]_vars

SpecGcJobs == MediaInit /\ [][GcJobsNext]_vars
SpecRefs == MediaInit /\ [][RefsNext]_vars
SpecPosts == MediaInit /\ [][PostsNext]_vars

RenditionsStart == RenditionsInit /\ IdemIdle /\ UpIdle /\ MediaIdle /\ RtIdle /\ QueueIdle
SpecRenditions == RenditionsStart /\ [][ApplySelectRenditions]_vars

JwtStart == JwtInit /\ IdemIdle /\ UpIdle /\ MediaIdle /\ RtIdle /\ QueueIdle
SpecJwt == JwtStart /\ [][JwtNext]_vars

AuthInit == auth = IdleAuth /\ calc = NoCalc /\ IdemIdle /\ UpIdle /\ MediaIdle /\ RtIdle /\ QueueIdle
SpecAuth == AuthInit /\ [][AuthNext]_vars

QueueInit ==
    qKind \in WorkerKinds /\ QueueRest /\ IdemIdle /\ UpIdle /\ MediaIdle /\ RtIdle /\ AuthIdle
SpecQueue == QueueInit /\ [][QueueNext]_vars

\* the worker's steps are taken as long as one is possible
SpecQueueErr == QueueInit /\ [][QueueErrNext]_vars /\ WF_vars(WorkerSteps)

\* the same with every broker call succeeding
SpecQueueRun == QueueInit /\ [][Xadd \/ WorkerSteps]_vars /\ WF_vars(WorkerSteps)
====
